---- MODULE Spec2Model ----
(***************************************************************************)
(* A model of the indexing and caching substrate of llm-tldr:              *)
(*   - the stacked snapshot DB        (src/tldr/stacked_db.py),            *)
(*   - daemon startup and the PID-file lock (src/tldr/daemon/startup.py),  *)
(*   - the daemon's memoized commands and change notification              *)
(*                                     (src/tldr/daemon.py),               *)
(*   - the run loop of one daemon: idle timeout, shutdown, cleanup         *)
(*                                     (src/tldr/daemon.py),               *)
(*   - durable paths and the partitioned index (src/tldr/durability.py),   *)
(*   - the resolution of calls across files                                *)
(*                         (src/tldr/cross_file_calls/builder.py),         *)
(*   - the sequential and the parallel scan of a project                   *)
(*                         (src/tldr/cross_file_calls/scanner.py),         *)
(*   - workspace scoping: active packages and exclude patterns             *)
(*                                     (src/tldr/workspace.py),            *)
(*   - control flow graphs and cyclomatic complexity (tldr.cfg_extractor), *)
(*   - the warm and impact commands of the daemon (src/tldr/daemon.py),    *)
(*   - saving and loading durable partitions (src/tldr/durability.py).     *)
(* Each part has its own specification (SpecStack, SpecStart, SpecMemo,    *)
(* SpecRun, SpecPath, SpecCalls, ...); the variables of the other parts    *)
(* stay at their initial values.                                           *)
(***************************************************************************)
EXTENDS Integers, Sequences, FiniteSets, TLC

VARIABLES
    \* ---- stacked snapshot DB ----
    stacks,     \* stack id -> ImmutableStack (parent, edges, deletions)
    dbs,        \* DB handle -> id of its current (top) stack: StackedDB.current
    origin,     \* DB handle -> how the handle was obtained (history)
    nextEdge,   \* number of Edge objects created so far (ids are unique, uuid4)
    lastOp,     \* the StackedDB call made by the last step (history)
    nOps,       \* number of StackedDB calls made so far (bounds the run)
    now,        \* the reading of the clock: datetime.now()
    \* ---- daemon startup (one project) ----
    platform,   \* sys.platform: "posix" or "win32"
    pc,         \* process -> where it is in start_daemon / TLDRDaemon.run
    fg,         \* process -> the foreground argument of its start_daemon
    fd,         \* process -> its open handle on the PID file (0: none)
    out,        \* process -> the last message it printed
    did,        \* process -> the effects it has had so far (history)
    handles,    \* open file descriptions of the PID file: position, who holds them
    locks,      \* locks held on the PID file: [h: handle, off: byte offset]
    pidContent, \* the process whose PID the PID file holds (0: the file is empty)
    tldrignore, \* whether <project>/.tldrignore exists
    sockPath,   \* POSIX: the process whose socket is bound at the socket path (0: no file)
    listening,  \* the processes that hold a listening server socket
    statusFile, \* the content of <project>/.tldr/status
    status,     \* process -> TLDRDaemon._status of its daemon object
    \* ---- memoized commands and change notification (one running daemon) ----
    content,    \* file -> the word the file on disk contains (changed by editors)
    fileRev,    \* SalsaDB: file -> revision counter
    cache,      \* SalsaDB: query key -> [result, deps: file -> revision recorded]
    hits,       \* SalsaDB statistics: cache hits
    misses,     \* SalsaDB statistics: cache misses
    dirtyFiles, \* TLDRDaemon._dirty_files
    dirtyCount, \* TLDRDaemon._dirty_count
    reindexInProgress, \* TLDRDaemon._reindex_in_progress
    reindexPc,  \* the live background reindex threads: where each is in do_reindex (pc)
                \* and its local dirty_files, the dirty set when it was triggered
    semanticCfg,\* TLDRDaemon._semantic_config: [enabled, auto_reindex_threshold]
    resp,       \* the response of the last command
    lastCmd,    \* the last command: what it was and how it was served (history)
    prevCmd,    \* the command before the last one (history)
    sinceCompute, \* query key -> files notified since its result was computed (history)
    nCmds,      \* number of requests handled so far (bounds the run)
    cmdPc,      \* where the main thread is in the command it is handling
    shutdownRequested, \* TLDRDaemon._shutdown_requested
    lastQuery,  \* TLDRDaemon.last_query
    \* ---- the run loop of one daemon ----
    clock,      \* the reading of time.time()
    last_query, \* TLDRDaemon.last_query, as a reading of the clock
    shutdown_requested, \* TLDRDaemon._shutdown_requested
    runPc,      \* where the daemon process is in TLDRDaemon.run
    socketFile, \* whether the socket file exists
    pidFile,    \* whether the PID file exists
    lockHeld,   \* whether the process holds the PID-file lock
    runStatus,  \* TLDRDaemon._status, mirrored to the status file
    dedup_index,\* whether TLDRDaemon.dedup_index is loaded (not None)
    persisted,  \* what the daemon has saved to disk: "dedup", "cache"
    lastRequest,\* the most recent request: kind, time, answer; parsedAt: the time
                \* of the most recent request that parsed as JSON (history)
    nDispatched,\* number of calls of handle_command so far (history)
    nRequests,  \* number of requests received so far (bounds the run)
    stopCause,  \* why run left its loop: "idle" or "shutdown" (history)
    released,   \* what the daemon has released, in order (history)
    \* ---- durability partitioning ----
    pathArg,    \* the path the caller passes (a sequence of atoms)
    pathRes,    \* the last call on that path and what it returned
    durable,    \* PartitionedIndex.durable: package key -> set of edges
    volatile,   \* PartitionedIndex.volatile: its set of edges
    added,      \* the edges add_edge has been called with (history)
    nAdds,      \* number of add_edge calls so far (bounds the run)
    lastFilter, \* the last call of filter_reindexable and its result
    \* ---- cross-file call resolution ----
    definitions,\* file -> the type with which it defines the name h ("none": not)
    cgFiles,    \* call_graph.files: the scanned files, in insertion order
    call,       \* the call of h in CallerFile, as the parser recorded it
    resolved_to,\* call['resolved_to'] of the call of h in CallerFile
    \* ---- one project scanned sequentially and in parallel ----
    outcome,    \* file -> what get_parser_for_file / extract_calls do for it
    seqPos,     \* _process_files_sequential: number of files it has gone through
    seqFiles,   \* call_graph.files of the sequential scan: records file, calls
    parDone,    \* _process_files_parallel: the files whose future has completed
    parFiles,   \* call_graph.files of the parallel scan: records file, calls
    \* ---- workspace scoping ----
    wsPath,     \* the path argument, a string: the sequence of its characters
    wsConfig,   \* WorkspaceConfig: active_packages, exclude_patterns
    wsCall,     \* the function that was called on wsPath ("none": none yet)
    wsResult,   \* what the call returned
    \* ---- control-flow graph of one function ----
    cfgBlocks,  \* CFGInfo.blocks: the kinds of the blocks; a block's id is its index
    cfgEdges,   \* CFGInfo.edges: records src, dst, kind
    cfgCur,     \* the block that receives the next statement
    cfgOpen,    \* the constructs that are open, innermost last
    cfgDecisions, \* the decision points read so far (history)
    cfgDepth,   \* the deepest nesting of constructs so far (history)
    cfgSteps,   \* the constructs and statements read so far (bounds the run)
    complexity, \* CFGInfo.cyclomatic_complexity (0: the function is not finished)
    \* ---- warm and impact (one project, successive daemon sessions) ----
    projectGraph, \* the call edges of the project's files as they are now
    tldrFiles,  \* the files under <project>/.tldr: records path, data
    indexes,    \* TLDRDaemon.indexes of the running daemon
    warmGraph,  \* the graph the last warm produced (history)
    impLast,    \* the last command and its response (history)
    nImp,       \* number of steps so far (bounds the run)
    \* ---- save_durable and load_durable (two PartitionedIndex objects) ----
    saved,      \* self.durable of the index that is saved: records
                \* package_key, edges in the order of insertion
    durableDir, \* the files of the directory: records name, data
    restored,   \* self.durable of the index that loads, by package key
    savePc      \* "building", "saved" or "loaded"

stackVars == <<stacks, dbs, origin, nextEdge, lastOp, nOps, now>>

startVars == <<platform, pc, fg, fd, out, did, handles, locks, pidContent,
               tldrignore, sockPath, listening, statusFile, status>>

memoVars == <<content, fileRev, cache, hits, misses, dirtyFiles, dirtyCount,
              reindexInProgress, reindexPc, semanticCfg, resp, lastCmd, prevCmd,
              sinceCompute, nCmds, cmdPc, shutdownRequested, lastQuery>>

runVars == <<clock, last_query, shutdown_requested, runPc, socketFile, pidFile,
             lockHeld, runStatus, dedup_index, persisted, lastRequest,
             nDispatched, nRequests, stopCause, released>>

pathVars == <<pathArg, pathRes, durable, volatile, added, nAdds, lastFilter>>

callVars == <<definitions, cgFiles, call, resolved_to>>

scanVars == <<outcome, seqPos, seqFiles, parDone, parFiles>>

wsVars == <<wsPath, wsConfig, wsCall, wsResult>>

cfgVars == <<cfgBlocks, cfgEdges, cfgCur, cfgOpen, cfgDecisions, cfgDepth,
             cfgSteps, complexity>>

impVars == <<projectGraph, tldrFiles, indexes, warmGraph, impLast, nImp>>

saveVars == <<saved, durableDir, restored, savePc>>

vars == <<stackVars, startVars, memoVars, runVars, pathVars, callVars, scanVars,
          wsVars, cfgVars, impVars, saveVars>>

\* What a step of one part leaves alone: the variables of the other parts.
notStack ==
    <<startVars, memoVars, runVars, pathVars, callVars, scanVars, wsVars, cfgVars,
      impVars, saveVars>>
notStart ==
    <<stackVars, memoVars, runVars, pathVars, callVars, scanVars, wsVars, cfgVars,
      impVars, saveVars>>
notMemo ==
    <<stackVars, startVars, runVars, pathVars, callVars, scanVars, wsVars, cfgVars,
      impVars, saveVars>>
notRun ==
    <<stackVars, startVars, memoVars, pathVars, callVars, scanVars, wsVars, cfgVars,
      impVars, saveVars>>
notPath ==
    <<stackVars, startVars, memoVars, runVars, callVars, scanVars, wsVars, cfgVars,
      impVars, saveVars>>
notCalls ==
    <<stackVars, startVars, memoVars, runVars, pathVars, scanVars, wsVars, cfgVars,
      impVars, saveVars>>
notWs ==
    <<stackVars, startVars, memoVars, runVars, pathVars, callVars, scanVars, cfgVars,
      impVars, saveVars>>
notCfg ==
    <<stackVars, startVars, memoVars, runVars, pathVars, callVars, scanVars, wsVars,
      impVars, saveVars>>
notImp ==
    <<stackVars, startVars, memoVars, runVars, pathVars, callVars, scanVars, wsVars,
      cfgVars, saveVars>>
notSave ==
    <<stackVars, startVars, memoVars, runVars, pathVars, callVars, scanVars, wsVars,
      cfgVars, impVars>>
notScan ==
    <<stackVars, startVars, memoVars, runVars, pathVars, callVars, wsVars, cfgVars,
      impVars, saveVars>>

(***************************************************************************)
(*                        STACKED SNAPSHOT DB                              *)
(***************************************************************************)

\* Bounds of the stacked-DB model.
MaxOps == 4

\* (src_file, src_func, dst_file, dst_func) tuples an edge may carry.
Tuples == { <<"a.py", "f", "b.py", "g">>, <<"b.py", "g", "a.py", "f">> }

\* An id no Edge carries: remove_edge accepts any string.
NoSuchId == 0

\* Edge.from_tuple: a fresh id (uuid4) and the four fields.
EdgeFromTuple(id, tup) == [id |-> id, tup |-> tup]

\* Edge.to_tuple: the id is dropped.
ToTuple(e) == e.tup

\* ImmutableStack(id, parent, created_at=datetime.now(), edges=[], deletions=set());
\* parent 0 is None.
NewStack(parent, edges) ==
    [parent |-> parent, edges |-> edges, deletions |-> {}, created_at |-> now]

StackIds == DOMAIN stacks
DBIds == DOMAIN dbs

\* ImmutableStack.get_all_edges(seen_deletions): local edges that are not in the
\* accumulated deletions, then the parent's, with the deletions passed down.
RECURSIVE MutGetAllEdgesNoPass(_, _, _)
MutGetAllEdgesNoPass(st, s, seen) ==
    LET all == seen \cup st[s].deletions
        local == SelectSeq(st[s].edges, LAMBDA e : e.id \notin all)
    IN  IF st[s].parent # 0
        THEN local \o MutGetAllEdgesNoPass(st, st[s].parent, {})
        ELSE local

RECURSIVE StackGetAllEdges(_, _, _)
StackGetAllEdges(st, s, seen) ==
    LET all == seen \cup st[s].deletions
        local == SelectSeq(st[s].edges, LAMBDA e : e.id \notin all)
    IN  IF st[s].parent # 0
        THEN local \o StackGetAllEdges(st, st[s].parent, all)
        ELSE local

\* ImmutableStack.depth
RECURSIVE StackDepth(_, _)
StackDepth(st, s) == IF st[s].parent = 0 THEN 1 ELSE 1 + StackDepth(st, st[s].parent)

\* [e.to_tuple() for e in edges]
ToTuples(es) == [i \in 1..Len(es) |-> ToTuple(es[i])]

\* StackedDB.get_all_edges: the edges of the current stack's chain, as tuples.
GetAllEdges(st, d, db) == ToTuples(StackGetAllEdges(st, d[db], {}))

\* StackedDB.depth
Depth(st, d, db) == StackDepth(st, d[db])

\* StackedDB._find_stack_by_id: walk from current to the root; 0 is None.
RECURSIVE FindFrom(_, _, _)
FindFrom(st, s, id) ==
    IF s = 0 THEN 0
    ELSE IF s = id THEN s
    ELSE FindFrom(st, st[s].parent, id)

FindStackById(st, d, db, id) == FindFrom(st, d[db], id)

\* StackedDB.query_at_stack
QueryAtStack(st, d, db, id) ==
    LET s == FindStackById(st, d, db, id)
    IN  IF s = 0 THEN << >> ELSE ToTuples(StackGetAllEdges(st, s, {}))

\* The stacks after StackedDB.add_edge: ImmutableStack.add_edge appends to current.
AddEdgeStacks(st, d, db, e) ==
    [st EXCEPT ![d[db]].edges = Append(@, e)]

\* A remove_edge that deletes the edge from the list of the stack that holds it.
RECURSIVE MutRemoveInPlace(_, _, _)
MutRemoveInPlace(st, s, id) ==
    IF s = 0 THEN st
    ELSE MutRemoveInPlace(
            [st EXCEPT ![s].edges = SelectSeq(@, LAMBDA e : e.id # id)],
            st[s].parent, id)

MutRemoveEdgeStacks(st, d, db, id) == MutRemoveInPlace(st, d[db], id)

\* The stacks after StackedDB.remove_edge: ImmutableStack.mark_deleted on current.
RemoveEdgeStacks(st, d, db, id) ==
    [st EXCEPT ![d[db]].deletions = @ \cup {id}]

\* StackedDB.rollback's base: the parent of current, or None at the root
\* (the constructor then makes a new empty stack).
MutRollbackBase(st, d, db) == d[db]

RollbackBase(st, d, db) == st[d[db]].parent

\* The edge list of the stack made by StackedDB.compact.
MutCompactEdges(st, d, db) == st[d[db]].edges

CompactEdges(st, d, db) == StackGetAllEdges(st, d[db], {})

NoOp == [op |-> "none", db |-> 0, res |-> 0, arg |-> 0]

\* The proper ancestors of stack s.
RECURSIVE Ancestors(_, _)
Ancestors(st, s) ==
    IF st[s].parent = 0 THEN {} ELSE {st[s].parent} \cup Ancestors(st, st[s].parent)

\* The stacks that are the parent of another stack.
HasChild(st) == { st[s].parent : s \in DOMAIN st } \ {0}

Range(s) == { s[i] : i \in DOMAIN s }

StackInit ==
    \* db = StackedDB(): one empty root stack
    /\ now = 1
    /\ stacks = <<NewStack(0, << >>)>>
    /\ dbs = <<1>>
    /\ origin = <<[kind |-> "new", from |-> 0]>>
    /\ nextEdge = 1
    /\ lastOp = NoOp
    /\ nOps = 0

\* db.add_edge(src_file, src_func, dst_file, dst_func)
AddEdge(db, tup) ==
    /\ nOps < MaxOps
    /\ stacks' = AddEdgeStacks(stacks, dbs, db, EdgeFromTuple(nextEdge, tup))
    /\ nextEdge' = nextEdge + 1
    /\ lastOp' = [op |-> "add_edge", db |-> db, res |-> 0, arg |-> nextEdge]
    /\ nOps' = nOps + 1
    /\ UNCHANGED <<dbs, origin, now, notStack>>

\* db.remove_edge(edge_id)
RemoveEdge(db, id) ==
    /\ nOps < MaxOps
    /\ stacks' = RemoveEdgeStacks(stacks, dbs, db, id)
    /\ lastOp' = [op |-> "remove_edge", db |-> db, res |-> 0, arg |-> id]
    /\ nOps' = nOps + 1
    /\ UNCHANGED <<dbs, origin, nextEdge, now, notStack>>

\* f = db.fork()
Fork(db) ==
    /\ nOps < MaxOps
    /\ stacks' = Append(stacks, NewStack(dbs[db], << >>))
    /\ dbs' = Append(dbs, Len(stacks) + 1)
    /\ origin' = Append(origin, [kind |-> "fork", from |-> db])
    /\ lastOp' = [op |-> "fork", db |-> db, res |-> Len(dbs) + 1, arg |-> 0]
    /\ nOps' = nOps + 1
    /\ UNCHANGED <<nextEdge, now, notStack>>

\* r = db.rollback()
Rollback(db) ==
    LET base == RollbackBase(stacks, dbs, db) IN
    /\ nOps < MaxOps
    /\ IF base = 0
       THEN /\ stacks' = Append(stacks, NewStack(0, << >>))
            /\ dbs' = Append(dbs, Len(stacks) + 1)
       ELSE /\ stacks' = stacks
            /\ dbs' = Append(dbs, base)
    /\ origin' = Append(origin, [kind |-> "rollback", from |-> db])
    /\ lastOp' = [op |-> "rollback", db |-> db, res |-> Len(dbs) + 1, arg |-> 0]
    /\ nOps' = nOps + 1
    /\ UNCHANGED <<nextEdge, now, notStack>>

\* c = db.compact()
Compact(db) ==
    /\ nOps < MaxOps
    /\ stacks' = Append(stacks, NewStack(0, CompactEdges(stacks, dbs, db)))
    /\ dbs' = Append(dbs, Len(stacks) + 1)
    /\ origin' = Append(origin, [kind |-> "compact", from |-> db])
    /\ lastOp' = [op |-> "compact", db |-> db, res |-> Len(dbs) + 1, arg |-> 0]
    /\ nOps' = nOps + 1
    /\ UNCHANGED <<nextEdge, now, notStack>>

NextStack ==
    \/ \E db \in DBIds, tup \in Tuples : AddEdge(db, tup)
    \/ \E db \in DBIds, id \in (1..(nextEdge - 1)) \cup {NoSuchId} : RemoveEdge(db, id)
    \/ \E db \in DBIds : Fork(db)
    \/ \E db \in DBIds : Rollback(db)
    \/ \E db \in DBIds : Compact(db)


\* The clock readings of the model; the first stack is made at time 1.
MaxTime == 2
Times == 0..MaxTime

\* A _find_stack_by_time that takes only stacks created strictly before the
\* target time.
RECURSIVE MutFindByTimeFrom(_, _, _, _)
MutFindByTimeFrom(st, s, target_time, result) ==
    IF s = 0 THEN result
    ELSE MutFindByTimeFrom(st, st[s].parent, target_time,
            IF /\ st[s].created_at < target_time
               /\ (result = 0 \/ st[s].created_at > st[result].created_at)
            THEN s ELSE result)

\* The loop of StackedDB._find_stack_by_time: walk from current to the root,
\* keep the candidate with the greatest created_at (the first one met on ties).
RECURSIVE FindByTimeFrom(_, _, _, _)
FindByTimeFrom(st, s, target_time, result) ==
    IF s = 0 THEN result
    ELSE FindByTimeFrom(st, st[s].parent, target_time,
            IF /\ st[s].created_at <= target_time
               /\ (result = 0 \/ st[s].created_at > st[result].created_at)
            THEN s ELSE result)

\* StackedDB._find_stack_by_time; 0 is None.
FindStackByTime(st, d, db, target_time) == FindByTimeFrom(st, d[db], target_time, 0)

\* StackedDB.query_at_time
QueryAtTime(st, d, db, target_time) ==
    LET s == FindStackByTime(st, d, db, target_time)
    IN  IF s = 0 THEN << >> ELSE ToTuples(StackGetAllEdges(st, s, {}))

\* r = db.query_at_time(t)
QueryTime(db, t) ==
    /\ nOps < MaxOps
    /\ lastOp' = [op |-> "query_at_time", db |-> db, res |-> 0, arg |-> t,
                  edges |-> QueryAtTime(stacks, dbs, db, t)]
    /\ nOps' = nOps + 1
    /\ UNCHANGED <<stacks, dbs, origin, nextEdge, now, notStack>>

\* Time passes.
Tick ==
    /\ now < MaxTime
    /\ now' = now + 1
    /\ UNCHANGED <<stacks, dbs, origin, nextEdge, lastOp, nOps, notStack>>

NextTime ==
    \/ \E db \in DBIds, tup \in Tuples : AddEdge(db, tup)
    \/ \E db \in DBIds, id \in (1..(nextEdge - 1)) \cup {NoSuchId} : RemoveEdge(db, id)
    \/ \E db \in DBIds : Fork(db)
    \/ \E db \in DBIds : Rollback(db)
    \/ \E db \in DBIds : Compact(db)
    \/ \E db \in DBIds, t \in Times : QueryTime(db, t)
    \/ Tick


(***************************************************************************)
(*                 DAEMON STARTUP AND THE PID-FILE LOCK                    *)
(***************************************************************************)

\* Bound: the number of processes (start_daemon invocations and their children).
MaxProcs == 3

\* Number of characters of a written PID (str(pid)); PIDs of one length here.
PidDigits == 5

Procs == 1..MaxProcs

\* The PID left in the PID file by a daemon of an earlier session.
StalePid == MaxProcs + 1

\* The state of the startup part while another part of the model runs.
StartIdle ==
    /\ platform = "posix"
    /\ pc = [p \in Procs |-> "idle"]
    /\ fg = [p \in Procs |-> FALSE]
    /\ fd = [p \in Procs |-> 0]
    /\ out = [p \in Procs |-> ""]
    /\ did = [p \in Procs |-> {}]
    /\ handles = << >>
    /\ locks = {}
    /\ pidContent = 0
    /\ tldrignore = FALSE
    /\ sockPath = 0
    /\ listening = {}
    /\ statusFile = "none"
    /\ status = [p \in Procs |-> "none"]

\* Length of the PID file: empty, or the digits of one PID.
FileLen == IF pidContent = 0 THEN 0 ELSE PidDigits

\* open(pid_path, "a+"): the position of a new handle is the end of the file.
\* fcntl.flock locks the whole file (offset 0 here); msvcrt.locking(fd, LK_NBLCK, 1)
\* locks one byte at the handle's current position.
NewLockOffset == IF platform = "win32" THEN FileLen ELSE 0

\* A non-blocking lock attempt through a new handle fails: the region is locked
\* through another handle.
LockAttemptFails == \E l \in locks : l.off = NewLockOffset

\* The handles after process p closes handle h.
CloseHandle(hs, h, p) == [hs EXCEPT ![h].open = @ \ {p}]

\* The locks after process p closes handle h: a lock goes with the last close
\* of its open file description.
LocksAfterClose(h, p) ==
    IF handles[h].open \ {p} = {} THEN { l \in locks : l.h # h } ELSE locks

\* fcntl.flock(fd, LOCK_UN) / msvcrt.locking(fd, LK_UNLCK, 1): the lock of the
\* open file description is released, whoever else holds a descriptor for it.
LocksAfterUnlock(h) == { l \in locks : l.h # h }

StartInit ==
    /\ platform \in {"posix", "win32"}
    /\ pc = [p \in Procs |-> "idle"]
    /\ fg = [p \in Procs |-> FALSE]
    /\ fd = [p \in Procs |-> 0]
    /\ out = [p \in Procs |-> ""]
    /\ did = [p \in Procs |-> {}]
    /\ handles = << >>
    /\ locks = {}
    /\ pidContent \in {0, StalePid}
    /\ tldrignore \in BOOLEAN
    /\ sockPath = 0
    /\ listening = {}
    /\ statusFile = "none"
    /\ status = [p \in Procs |-> "none"]

\* Process ids are handed out in order: the next process is the lowest unused one.
IsNextFree(p) == pc[p] = "idle" /\ \A q \in Procs : q < p => pc[q] # "idle"

\* A user runs start_daemon(project, foreground=f) in a new process.
Invoke(p, f) ==
    /\ IsNextFree(p)
    /\ pc' = [pc EXCEPT ![p] = "acquire"]
    /\ fg' = [fg EXCEPT ![p] = f]
    /\ UNCHANGED <<notStart, platform, fd, out, did, handles, locks, pidContent, tldrignore,
                   sockPath, listening, statusFile, status>>

\* start_daemon, lock acquired: _try_acquire_pidfile_lock returns the handle.
AcquireLock(p) ==
    /\ pc[p] = "acquire"
    /\ ~LockAttemptFails
    /\ handles' = Append(handles, [pos |-> NewLockOffset, open |-> {p}])
    /\ locks' = locks \cup {[h |-> Len(handles) + 1, off |-> NewLockOffset]}
    /\ fd' = [fd EXCEPT ![p] = Len(handles) + 1]
    /\ pc' = [pc EXCEPT ![p] = "ensure_ignore"]
    /\ UNCHANGED <<notStart, platform, fg, out, did, pidContent, tldrignore, sockPath,
                   listening, statusFile, status>>

\* A start_daemon that creates .tldrignore before it looks at the lock.
MutStartRefused(p) ==
    /\ pc[p] = "acquire"
    /\ LockAttemptFails
    /\ out' = [out EXCEPT ![p] = "Daemon already running"]
    /\ pc' = [pc EXCEPT ![p] = "returned"]
    /\ tldrignore' = TRUE
    /\ UNCHANGED <<notStart, platform, fg, fd, did, handles, locks, pidContent,
                   sockPath, listening, statusFile, status>>

\* start_daemon, lock busy: the handle is closed, "Daemon already running" is
\* printed and start_daemon returns.
StartRefused(p) ==
    /\ pc[p] = "acquire"
    /\ LockAttemptFails
    /\ out' = [out EXCEPT ![p] = "Daemon already running"]
    /\ pc' = [pc EXCEPT ![p] = "returned"]
    /\ UNCHANGED <<notStart, platform, fg, fd, did, handles, locks, pidContent, tldrignore,
                   sockPath, listening, statusFile, status>>

\* ensure_tldrignore(project), then daemon = TLDRDaemon(project).
EnsureIgnore(p) ==
    /\ pc[p] = "ensure_ignore"
    /\ tldrignore' = TRUE
    /\ status' = [status EXCEPT ![p] = "initializing"]
    /\ did' = [did EXCEPT ![p] = IF tldrignore THEN @ ELSE @ \cup {"tldrignore"}]
    /\ pc' = [pc EXCEPT ![p] =
                IF fg[p] THEN "write_pid"
                ELSE IF platform = "win32" THEN "win_release" ELSE "fork"]
    /\ UNCHANGED <<notStart, platform, fg, fd, out, handles, locks, pidContent, sockPath,
                   listening, statusFile>>

\* Windows byte-range locks are mandatory: truncating or writing bytes
\* [0, PidDigits) fails while another handle holds a lock inside that range.
\* flock locks are advisory and stop no write.
WriteDenied(p) ==
    /\ platform = "win32"
    /\ \E l \in locks : l.h # fd[p] /\ l.off < PidDigits

\* _write_pid_to_locked_file(pidfile, os.getpid()); daemon._pidfile = pidfile.
WritePid(p) ==
    /\ pc[p] = "write_pid"
    /\ ~WriteDenied(p)
    /\ pidContent' = p
    /\ did' = [did EXCEPT ![p] = @ \cup {"pid"}]
    /\ pc' = [pc EXCEPT ![p] = "run_start"]
    /\ UNCHANGED <<notStart, platform, fg, fd, out, handles, locks, tldrignore, sockPath,
                   listening, statusFile, status>>

\* _write_pid_to_locked_file raises (PermissionError): start_daemon has no
\* handler, the process ends and its handle is closed. Whether truncate() took
\* effect before the failure is not determined.
WritePidDenied(p) ==
    /\ pc[p] = "write_pid"
    /\ WriteDenied(p)
    /\ pidContent' \in {pidContent, 0}
    /\ locks' = LocksAfterClose(fd[p], p)
    /\ handles' = CloseHandle(handles, fd[p], p)
    /\ fd' = [fd EXCEPT ![p] = 0]
    /\ out' = [out EXCEPT ![p] = "PermissionError"]
    /\ pc' = [pc EXCEPT ![p] = "crashed"]
    /\ UNCHANGED <<notStart, platform, fg, did, tldrignore, sockPath, listening,
                   statusFile, status>>

\* POSIX background: os.fork(). The child c shares the parent's open file
\* description of the PID file; it goes on to setsid and to write its PID.
ForkChild(p, c) ==
    /\ pc[p] = "fork"
    /\ IsNextFree(c)
    /\ pc' = [pc EXCEPT ![p] = "parent_release", ![c] = "write_pid"]
    /\ fd' = [fd EXCEPT ![c] = fd[p]]
    /\ handles' = [handles EXCEPT ![fd[p]].open = @ \cup {c}]
    /\ did' = [did EXCEPT ![p] = @ \cup {"fork"}]
    /\ status' = [status EXCEPT ![c] = status[p]]
    /\ UNCHANGED <<notStart, platform, fg, out, locks, pidContent, tldrignore, sockPath,
                   listening, statusFile>>

\* POSIX background, parent: fcntl.flock(pidfile.fileno(), LOCK_UN); pidfile.close().
ParentRelease(p) ==
    /\ pc[p] = "parent_release"
    /\ locks' = LocksAfterUnlock(fd[p])
    /\ handles' = CloseHandle(handles, fd[p], p)
    /\ fd' = [fd EXCEPT ![p] = 0]
    /\ pc' = [pc EXCEPT ![p] = "parent_wait"]
    /\ UNCHANGED <<notStart, platform, fg, out, did, pidContent, tldrignore, sockPath,
                   listening, statusFile, status>>

\* POSIX background, parent: the socket exists and accepts a connection.
ParentSeesSocket(p) ==
    /\ pc[p] = "parent_wait"
    /\ sockPath # 0
    /\ sockPath \in listening
    /\ out' = [out EXCEPT ![p] = "Daemon started"]
    /\ pc' = [pc EXCEPT ![p] = "returned"]
    /\ UNCHANGED <<notStart, platform, fg, fd, did, handles, locks, pidContent, tldrignore,
                   sockPath, listening, statusFile, status>>

\* POSIX background, parent: the 10 s wait for the socket ran out.
ParentTimeout(p) ==
    /\ pc[p] = "parent_wait"
    /\ out' = [out EXCEPT ![p] = "Warning: socket not ready"]
    /\ pc' = [pc EXCEPT ![p] = "returned"]
    /\ UNCHANGED <<notStart, platform, fg, fd, did, handles, locks, pidContent, tldrignore,
                   sockPath, listening, statusFile, status>>

\* Windows background: msvcrt.locking(fd, LK_UNLCK, 1); pidfile.close().
WinRelease(p) ==
    /\ pc[p] = "win_release"
    /\ locks' = LocksAfterUnlock(fd[p])
    /\ handles' = CloseHandle(handles, fd[p], p)
    /\ fd' = [fd EXCEPT ![p] = 0]
    /\ pc' = [pc EXCEPT ![p] = "win_spawn"]
    /\ UNCHANGED <<notStart, platform, fg, out, did, pidContent, tldrignore, sockPath,
                   listening, statusFile, status>>

\* Windows background: subprocess.Popen([python, -m, tldr.daemon, project,
\* --foreground]); the new process c runs start_daemon(project, foreground=True).
WinSpawn(p, c) ==
    /\ pc[p] = "win_spawn"
    /\ IsNextFree(c)
    /\ pc' = [pc EXCEPT ![p] = "returned", ![c] = "acquire"]
    /\ fg' = [fg EXCEPT ![c] = TRUE]
    /\ out' = [out EXCEPT ![p] = "Daemon started"]
    /\ did' = [did EXCEPT ![p] = @ \cup {"spawn"}]
    /\ UNCHANGED <<notStart, platform, fd, handles, locks, pidContent, tldrignore, sockPath,
                   listening, statusFile, status>>

\* TLDRDaemon.run: write_pid_file(); write_status("indexing").
RunStart(p) ==
    /\ pc[p] = "run_start"
    /\ statusFile' = "indexing"
    /\ status' = [status EXCEPT ![p] = "indexing"]
    /\ pc' = [pc EXCEPT ![p] = "create_socket"]
    /\ UNCHANGED <<notStart, platform, fg, fd, out, did, handles, locks, pidContent,
                   tldrignore, sockPath, listening>>

\* TLDRDaemon.run: _create_socket(); write_status("ready"). On POSIX an existing
\* socket file is unlinked and the path bound anew; on Windows the TCP port is
\* bound with SO_REUSEADDR.
CreateSocket(p) ==
    /\ pc[p] = "create_socket"
    /\ sockPath' = IF platform = "win32" THEN sockPath ELSE p
    /\ listening' = listening \cup {p}
    /\ did' = [did EXCEPT ![p] = @ \cup {"socket"}]
    /\ statusFile' = "ready"
    /\ status' = [status EXCEPT ![p] = "ready"]
    /\ pc' = [pc EXCEPT ![p] = "loop"]
    /\ UNCHANGED <<notStart, platform, fg, fd, out, handles, locks, pidContent, tldrignore>>

\* TLDRDaemon.run leaves its loop (shutdown command or idle timeout); finally:
\* _cleanup_socket(); remove_pid_file(); write_status("stopped").
LeaveLoop(p) ==
    /\ pc[p] = "loop"
    /\ listening' = listening \ {p}
    /\ sockPath' = 0
    /\ statusFile' = "stopped"
    /\ status' = [status EXCEPT ![p] = "stopped"]
    /\ pc' = [pc EXCEPT ![p] = "stopped"]
    /\ UNCHANGED <<notStart, platform, fg, fd, out, did, handles, locks, pidContent, tldrignore>>

\* The daemon process ends (run returned; sys.exit(0) in the forked child): its
\* descriptors are closed.
ProcExit(p) ==
    /\ pc[p] = "stopped"
    /\ locks' = LocksAfterClose(fd[p], p)
    /\ handles' = CloseHandle(handles, fd[p], p)
    /\ fd' = [fd EXCEPT ![p] = 0]
    /\ pc' = [pc EXCEPT ![p] = "exited"]
    /\ UNCHANGED <<notStart, platform, fg, out, did, pidContent, tldrignore, sockPath,
                   listening, statusFile, status>>

\* Another program (a client, the status command) runs _is_daemon_alive for
\* the project in a new process.
ProbeInvoke(p) ==
    /\ IsNextFree(p)
    /\ pc' = [pc EXCEPT ![p] = "probe"]
    /\ UNCHANGED <<notStart, platform, fg, fd, out, did, handles, locks, pidContent,
                   tldrignore, sockPath, listening, statusFile, status>>

\* _is_daemon_alive, lock busy: _try_acquire_pidfile_lock returns None and the
\* probe returns True.
ProbeLockBusy(p) ==
    /\ pc[p] = "probe"
    /\ LockAttemptFails
    /\ out' = [out EXCEPT ![p] = "alive"]
    /\ pc' = [pc EXCEPT ![p] = "returned"]
    /\ UNCHANGED <<notStart, platform, fg, fd, did, handles, locks, pidContent,
                   tldrignore, sockPath, listening, statusFile, status>>

\* _is_daemon_alive(project, retries=3)
Retries == 3

\* The attempts of its loop that the probe of process p has started.
AttemptMarks == <<"attempt 1", "attempt 2", "attempt 3">>

Attempts(p) ==
    Cardinality({ n \in 1..Retries : AttemptMarks[n] \in did[p] })

\* _is_daemon_alive, lock free: _try_acquire_pidfile_lock takes the lock and
\* returns the handle.
ProbeLock(p) ==
    /\ pc[p] = "probe"
    /\ ~LockAttemptFails
    /\ did' = [did EXCEPT ![p] = @ \cup { AttemptMarks[Attempts(p) + 1] }]
    /\ handles' = Append(handles, [pos |-> NewLockOffset, open |-> {p}])
    /\ locks' = locks \cup {[h |-> Len(handles) + 1, off |-> NewLockOffset]}
    /\ fd' = [fd EXCEPT ![p] = Len(handles) + 1]
    /\ pc' = [pc EXCEPT ![p] = "probe_locked"]
    /\ UNCHANGED <<notStart, platform, fg, out, pidContent, tldrignore, sockPath,
                   listening, statusFile, status>>

\* _is_process_running(pid) for the PID the file holds.
PidFileNamesRunningProcess ==
    /\ pidContent \in Procs
    /\ pc[pidContent] \notin {"idle", "returned", "exited"}

\* _is_daemon_alive, holding the lock: the PID is read, the lock is released
\* and the handle closed; the probe returns True when the PID names a running
\* process, else it tries again or, after the last attempt, returns False.
ProbeRelease(p) ==
    /\ pc[p] = "probe_locked"
    /\ locks' = LocksAfterClose(fd[p], p)
    /\ handles' = CloseHandle(handles, fd[p], p)
    /\ fd' = [fd EXCEPT ![p] = 0]
    /\ IF PidFileNamesRunningProcess
       THEN /\ out' = [out EXCEPT ![p] = "alive"]
            /\ pc' = [pc EXCEPT ![p] = "returned"]
       ELSE IF Attempts(p) < Retries
       THEN /\ pc' = [pc EXCEPT ![p] = "probe"]
            /\ UNCHANGED out
       ELSE /\ out' = [out EXCEPT ![p] = "not alive"]
            /\ pc' = [pc EXCEPT ![p] = "returned"]
    /\ UNCHANGED <<notStart, platform, fg, did, pidContent, tldrignore, sockPath,
                   listening, statusFile, status>>

NextStart ==
    \/ \E p \in Procs, f \in BOOLEAN : Invoke(p, f)
    \/ \E p \in Procs : ProbeInvoke(p)
    \/ \E p \in Procs : ProbeLockBusy(p)
    \/ \E p \in Procs : ProbeLock(p)
    \/ \E p \in Procs : ProbeRelease(p)
    \/ \E p \in Procs : AcquireLock(p)
    \/ \E p \in Procs : StartRefused(p)
    \/ \E p \in Procs : EnsureIgnore(p)
    \/ \E p \in Procs : WritePid(p)
    \/ \E p \in Procs : WritePidDenied(p)
    \/ \E p \in Procs, c \in Procs : ForkChild(p, c)
    \/ \E p \in Procs : ParentRelease(p)
    \/ \E p \in Procs : ParentSeesSocket(p)
    \/ \E p \in Procs : ParentTimeout(p)
    \/ \E p \in Procs : WinRelease(p)
    \/ \E p \in Procs, c \in Procs : WinSpawn(p, c)
    \/ \E p \in Procs : RunStart(p)
    \/ \E p \in Procs : CreateSocket(p)
    \/ \E p \in Procs : LeaveLoop(p)
    \/ \E p \in Procs : ProcExit(p)

(***************************************************************************)
(*        MEMOIZED COMMANDS AND CHANGE NOTIFICATION (daemon.py)            *)
(*                                                                         *)
(* The command handlers of one running daemon.  The memo layer (SalsaDB,   *)
(* tldr/salsa.py) follows section 4.8 of the specification: revision       *)
(* counters, the revisions a cached result recorded, validity of an entry. *)
(* The search and the extraction of tldr.api are functions of the files    *)
(* on disk.                                                                *)
(***************************************************************************)

MaxCmds == 3

Files == {"a.py", "b.py"}

\* The files of the project in the order a search walks them.
FileSeq == <<"a.py", "b.py">>

Words == {"foo", "bar"}

\* The files that are rewritten on disk while the daemon runs.
Edited == {"a.py"}

Project == "proj"

\* command.get("max_results", 100)
DefaultMaxResults == 100

\* default_config["auto_reindex_threshold"]
DefaultThreshold == 20

\* auto_reindex_threshold as the configuration files of the project set it.
Thresholds == {1, 2}

\* command.get(field, default)
Get(command, field, default) ==
    IF field \in DOMAIN command THEN command[field] ELSE default

SearchCommands ==
    {[cmd |-> "search"]}
      \cup {[cmd |-> "search", pattern |-> p] : p \in Words \cup {""}}
      \cup {[cmd |-> "search", pattern |-> "foo", max_results |-> 1]}

ExtractCommands ==
    {[cmd |-> "extract"]} \cup {[cmd |-> "extract", file |-> f] : f \in Files}

NotifyCommands ==
    {[cmd |-> "notify"]} \cup {[cmd |-> "notify", file |-> f] : f \in Files}

Min(a, b) == IF a < b THEN a ELSE b

\* api.search(pattern, root, max_results): the files under root that contain
\* the pattern, at most max_results of them.
ApiSearch(pattern, max_results) ==
    LET found == SelectSeq(FileSeq, LAMBDA f : content[f] = pattern)
    IN  SubSeq(found, 1, Min(max_results, Len(found)))

\* api.extract_file(file_path): the facts of the file as it is on disk.
ApiExtractFile(file_path) == [file |-> file_path, facts |-> content[file_path]]

\* cached_search(db, project, pattern, max_results)
CachedSearch(project, pattern, max_results) ==
    [status |-> "ok", results |-> ApiSearch(pattern, max_results)]

\* cached_extract(db, file_path)
CachedExtract(file_path) ==
    [status |-> "ok", result |-> ApiExtractFile(file_path)]

\* _load_semantic_config: the defaults, overridden by the project's settings.
SemanticConfigs ==
    {[enabled |-> TRUE, auto_reindex_threshold |-> t] : t \in Thresholds}
      \cup {[enabled |-> FALSE, auto_reindex_threshold |-> DefaultThreshold]}

\* The memo key of a query: the query function and its argument tuple.
NoKey == <<"none", "", "", 0>>
SearchKey(project, pattern, max_results) ==
    <<"cached_search", project, pattern, max_results>>
ExtractKey(file_path) == <<"cached_extract", file_path, "", 0>>

\* The files whose content the query function reads when it runs: the search
\* walks every file under the project root, the extraction reads its file.
\* Neither reads them through the db it is handed.
FilesRead(key) ==
    IF key[1] = "cached_search" THEN Files
    ELSE IF key[1] = "cached_extract" THEN {key[2]} \cap Files
    ELSE {}

\* SalsaDB: the files the arguments of a query reference.  The arguments of
\* cached_search are the project root, a pattern and a number: no file.
ArgFiles(key) == {key[2]} \cap Files

\* SalsaDB: a cache hit requires all recorded revisions to still be current.
SalsaHit(key) ==
    /\ key \in DOMAIN cache
    /\ \A f \in DOMAIN cache[key].deps : fileRev[f] = cache[key].deps[f]

\* SalsaDB.query(func, *args): serve the entry, or run the function, record
\* the revisions it depends on and store the result.
SalsaQuery(key, value) ==
    IF SalsaHit(key)
    THEN /\ hits' = hits + 1
         /\ resp' = cache[key].result
         /\ UNCHANGED <<cache, misses>>
    ELSE /\ misses' = misses + 1
         /\ cache' = [k \in DOMAIN cache \cup {key} |->
                        IF k = key
                        THEN [result |-> value,
                              deps |-> [f \in ArgFiles(key) |-> fileRev[f]]]
                        ELSE cache[k]]
         /\ resp' = value
         /\ UNCHANGED hits

\* SalsaDB.set_file(path, content): bumps the revision of the file.
SalsaSetFile(path) ==
    fileRev' = [f \in Files |-> IF f = path THEN fileRev[f] + 1 ELSE fileRev[f]]

\* SalsaDB.get_stats()
SalsaStats == [hits |-> hits, misses |-> misses]

\* History: what the command was, how it was served and what it answered.
Log(c, key, hit, notified) ==
    /\ lastCmd' = [cmd |-> c, key |-> key, resp |-> resp', hit |-> hit,
                   notifiedDep |-> /\ key \in DOMAIN sinceCompute
                                   /\ sinceCompute[key] \cap FilesRead(key) # {},
                   stats |-> [hits |-> hits', misses |-> misses']]
    /\ prevCmd' = [cmd |-> lastCmd.cmd, key |-> lastCmd.key,
                   resp |-> lastCmd.resp, stats |-> lastCmd.stats]
    /\ nCmds' = nCmds + 1
    /\ sinceCompute' = [k \in DOMAIN cache' |->
                          IF k = key /\ ~hit THEN {}
                          ELSE sinceCompute[k] \cup notified]

NoCmd ==
    [cmd |-> "none", key |-> NoKey, resp |-> [status |-> "none"], hit |-> FALSE,
     notifiedDep |-> FALSE, stats |-> [hits |-> 0, misses |-> 0]]

NoPrevCmd ==
    [cmd |-> "none", key |-> NoKey, resp |-> [status |-> "none"],
     stats |-> [hits |-> 0, misses |-> 0]]

\* Nothing was sent to the client.
NoResponse == [status |-> "none"]

\* The main thread is in run()'s loop, between two connections.
Idle == [pc |-> "idle", file |-> "", loaded |-> 0]

\* TLDRDaemon.__init__ and run() up to the command loop.
MemoInit ==
    /\ content = [f \in Files |-> "foo"]
    /\ fileRev = [f \in Files |-> 0]
    /\ cache = [k \in {} |-> 0]
    /\ hits = 0
    /\ misses = 0
    /\ dirtyFiles = {}
    /\ dirtyCount = 0
    /\ reindexInProgress = FALSE
    /\ reindexPc = << >>
    /\ semanticCfg \in SemanticConfigs
    /\ resp = NoResponse
    /\ lastCmd = NoCmd
    /\ prevCmd = NoPrevCmd
    /\ sinceCompute = [k \in {} |-> {}]
    /\ nCmds = 0
    /\ cmdPc = Idle
    /\ shutdownRequested = FALSE
    /\ lastQuery = 0

\* The state of this part while another part of the model runs.
MemoIdle ==
    /\ content = [f \in Files |-> "foo"]
    /\ fileRev = [f \in Files |-> 0]
    /\ cache = [k \in {} |-> 0]
    /\ hits = 0
    /\ misses = 0
    /\ dirtyFiles = {}
    /\ dirtyCount = 0
    /\ reindexInProgress = FALSE
    /\ reindexPc = << >>
    /\ semanticCfg = [enabled |-> TRUE, auto_reindex_threshold |-> DefaultThreshold]
    /\ resp = NoResponse
    /\ lastCmd = NoCmd
    /\ prevCmd = NoPrevCmd
    /\ sinceCompute = [k \in {} |-> {}]
    /\ nCmds = 0
    /\ cmdPc = Idle
    /\ shutdownRequested = FALSE
    /\ lastQuery = 0

\* run(): `while not self._shutdown_requested: self._handle_one_connection()`.
\* One connection is handled at a time, by the main thread.
CanAccept ==
    /\ nCmds < MaxCmds
    /\ cmdPc = Idle
    /\ ~shutdownRequested

\* handle_command: self.last_query = time.time(). The reading taken while the
\* k-th request is handled is k.
TouchLastQuery == lastQuery' = nCmds + 1

\* A search handler that calls the search directly instead of going through
\* the memo layer.
MutHandleSearch(command) ==
    /\ CanAccept
    /\ TouchLastQuery
    /\ LET pattern == Get(command, "pattern", "")
           max_results == Get(command, "max_results", DefaultMaxResults)
       IN  IF pattern = ""
           THEN /\ resp' = [status |-> "error",
                            message |-> <<"Missing required parameter: ", "pattern">>]
                /\ UNCHANGED <<cache, hits, misses>>
                /\ Log("search", NoKey, FALSE, {})
           ELSE /\ resp' = CachedSearch(Project, pattern, max_results)
                /\ UNCHANGED <<cache, hits, misses>>
                /\ Log("search", SearchKey(Project, pattern, max_results), FALSE, {})
    /\ UNCHANGED <<content, fileRev, dirtyFiles, dirtyCount, reindexInProgress,
                   reindexPc, semanticCfg, cmdPc, shutdownRequested, notMemo>>

\* TLDRDaemon._handle_search
HandleSearch(command) ==
    /\ CanAccept
    /\ TouchLastQuery
    /\ LET pattern == Get(command, "pattern", "")
           max_results == Get(command, "max_results", DefaultMaxResults)
           key == SearchKey(Project, pattern, max_results)
       IN  IF pattern = ""
           THEN /\ resp' = [status |-> "error",
                            message |-> <<"Missing required parameter: ", "pattern">>]
                /\ UNCHANGED <<cache, hits, misses>>
                /\ Log("search", NoKey, FALSE, {})
           ELSE /\ SalsaQuery(key, CachedSearch(Project, pattern, max_results))
                /\ Log("search", key, SalsaHit(key), {})
    /\ UNCHANGED <<content, fileRev, dirtyFiles, dirtyCount, reindexInProgress,
                   reindexPc, semanticCfg, cmdPc, shutdownRequested, notMemo>>

\* TLDRDaemon._handle_extract
HandleExtract(command) ==
    /\ CanAccept
    /\ TouchLastQuery
    /\ LET file_path == Get(command, "file", "")
           key == ExtractKey(file_path)
       IN  IF file_path = ""
           THEN /\ resp' = [status |-> "error",
                            message |-> <<"Missing required parameter: ", "file">>]
                /\ UNCHANGED <<cache, hits, misses>>
                /\ Log("extract", NoKey, FALSE, {})
           ELSE /\ SalsaQuery(key, CachedExtract(file_path))
                /\ Log("extract", key, SalsaHit(key), {})
    /\ UNCHANGED <<content, fileRev, dirtyFiles, dirtyCount, reindexInProgress,
                   reindexPc, semanticCfg, cmdPc, shutdownRequested, notMemo>>

\* TLDRDaemon._handle_status (uptime and file count left out)
HandleStatus ==
    /\ CanAccept
    /\ TouchLastQuery
    /\ resp' = [status |-> "ready", project |-> Project,
                salsa_stats |-> SalsaStats, dedup_stats |-> << >>]
    /\ UNCHANGED <<cache, hits, misses>>
    /\ Log("status", NoKey, FALSE, {})
    /\ UNCHANGED <<content, fileRev, dirtyFiles, dirtyCount, reindexInProgress,
                   reindexPc, semanticCfg, cmdPc, shutdownRequested, notMemo>>

\* TLDRDaemon._handle_shutdown
HandleShutdown ==
    /\ CanAccept
    /\ TouchLastQuery
    /\ shutdownRequested' = TRUE
    /\ resp' = [status |-> "shutting_down"]
    /\ UNCHANGED <<cache, hits, misses>>
    /\ Log("shutdown", NoKey, FALSE, {})
    /\ UNCHANGED <<content, fileRev, dirtyFiles, dirtyCount, reindexInProgress,
                   reindexPc, semanticCfg, cmdPc, notMemo>>

\* A connection handler that does not catch the decoding error: it ends in the
\* outer `except Exception`, which sends nothing.
MutHandleMalformed ==
    /\ CanAccept
    /\ resp' = NoResponse
    /\ UNCHANGED <<cache, hits, misses>>
    /\ Log("malformed", NoKey, FALSE, {})
    /\ UNCHANGED <<content, fileRev, dirtyFiles, dirtyCount, reindexInProgress,
                   reindexPc, semanticCfg, cmdPc, shutdownRequested, lastQuery,
                   notMemo>>

\* _handle_one_connection with a request that is not valid JSON: json.loads
\* raises JSONDecodeError, handle_command is not called.
HandleMalformed ==
    /\ CanAccept
    /\ resp' = [status |-> "error", message |-> <<"Invalid JSON: ", "Expecting value">>]
    /\ UNCHANGED <<cache, hits, misses>>
    /\ Log("malformed", NoKey, FALSE, {})
    /\ UNCHANGED <<content, fileRev, dirtyFiles, dirtyCount, reindexInProgress,
                   reindexPc, semanticCfg, cmdPc, shutdownRequested, lastQuery,
                   notMemo>>

\* _handle_one_connection with a request that is JSON but not an object ([1], 5,
\* "x"): handle_command sets last_query, then command.get raises AttributeError,
\* which neither handle_command nor the JSONDecodeError clause catches; the outer
\* `except Exception` logs it and the connection is closed without a response.
HandleNonObject ==
    /\ CanAccept
    /\ TouchLastQuery
    /\ resp' = NoResponse
    /\ UNCHANGED <<cache, hits, misses>>
    /\ Log("non_object", NoKey, FALSE, {})
    /\ UNCHANGED <<content, fileRev, dirtyFiles, dirtyCount, reindexInProgress,
                   reindexPc, semanticCfg, cmdPc, shutdownRequested, notMemo>>

\* TLDRDaemon.notify_file_changed: dedup_index is None throughout (nothing
\* calls _ensure_dedup_index_loaded), so only the memo layer is told.
NotifyFileChanged(file_path) == SalsaSetFile(file_path)

\* A threshold test that forgets the reindex in flight.
MutShouldReindex(count, threshold) == count >= threshold

\* _handle_notify: should_reindex
ShouldReindex(count, threshold) == count >= threshold /\ ~reindexInProgress

\* _trigger_background_reindex up to thread.start()
TriggerBackgroundReindex ==
    IF reindexInProgress
    THEN UNCHANGED <<reindexInProgress, reindexPc>>
    ELSE /\ reindexInProgress' = TRUE
         /\ reindexPc' = Append(reindexPc, [pc |-> "running", dirty_files |-> dirtyFiles])

\* A notify handler that tracks the path before it validates the command.
MutNotifyStart(command) ==
    /\ CanAccept
    /\ TouchLastQuery
    /\ LET file_path == Get(command, "file", "")
       IN  /\ dirtyFiles' = dirtyFiles \cup {file_path}
           /\ IF file_path = ""
              THEN /\ resp' = [status |-> "error",
                               message |-> <<"Missing required parameter: ", "file">>]
                   /\ UNCHANGED <<fileRev, cmdPc, cache, hits, misses>>
                   /\ Log("notify", NoKey, FALSE, {})
              ELSE /\ cmdPc' = [pc |-> IF file_path \in dirtyFiles THEN "check" ELSE "load",
                                file |-> file_path, loaded |-> 0]
                   /\ UNCHANGED <<fileRev, cache, hits, misses, resp, lastCmd,
                                  prevCmd, sinceCompute, nCmds>>
    /\ UNCHANGED <<content, dirtyCount, reindexInProgress, reindexPc, semanticCfg,
                   shutdownRequested, notMemo>>

\* _handle_notify, first part: the command is validated; with semantic search
\* disabled the memo layer is told and the handler returns; otherwise the path
\* is added to _dirty_files if it is not there.
NotifyStart(command) ==
    /\ CanAccept
    /\ TouchLastQuery
    /\ LET file_path == Get(command, "file", "")
       IN  IF file_path = ""
           THEN /\ resp' = [status |-> "error",
                            message |-> <<"Missing required parameter: ", "file">>]
                /\ UNCHANGED <<fileRev, dirtyFiles, cmdPc, cache, hits, misses>>
                /\ Log("notify", NoKey, FALSE, {})
           ELSE IF ~semanticCfg.enabled
           THEN /\ NotifyFileChanged(file_path)
                /\ resp' = [status |-> "ok", semantic_enabled |-> FALSE]
                /\ UNCHANGED <<dirtyFiles, cmdPc, cache, hits, misses>>
                /\ Log("notify", NoKey, FALSE, {file_path})
           ELSE /\ dirtyFiles' = dirtyFiles \cup {file_path}
                /\ cmdPc' = [pc |-> IF file_path \in dirtyFiles THEN "check" ELSE "load",
                             file |-> file_path, loaded |-> 0]
                /\ UNCHANGED <<fileRev, cache, hits, misses, resp, lastCmd,
                               prevCmd, sinceCompute, nCmds>>
    /\ UNCHANGED <<content, dirtyCount, reindexInProgress, reindexPc, semanticCfg,
                   shutdownRequested, notMemo>>

\* _handle_notify: self._dirty_count += 1 reads the counter ...
NotifyLoadCount ==
    /\ cmdPc.pc = "load"
    /\ cmdPc' = [cmdPc EXCEPT !.pc = "store", !.loaded = dirtyCount]
    /\ UNCHANGED <<content, fileRev, cache, hits, misses, dirtyFiles, dirtyCount,
                   reindexInProgress, reindexPc, semanticCfg, resp, lastCmd,
                   prevCmd, sinceCompute, nCmds, shutdownRequested, lastQuery,
                   notMemo>>

\* ... and writes it back, one higher.
NotifyStoreCount ==
    /\ cmdPc.pc = "store"
    /\ dirtyCount' = cmdPc.loaded + 1
    /\ cmdPc' = [cmdPc EXCEPT !.pc = "check", !.loaded = 0]
    /\ UNCHANGED <<content, fileRev, cache, hits, misses, dirtyFiles,
                   reindexInProgress, reindexPc, semanticCfg, resp, lastCmd,
                   prevCmd, sinceCompute, nCmds, shutdownRequested, lastQuery,
                   notMemo>>

\* _handle_notify, last part: notify_file_changed, the threshold test,
\* _trigger_background_reindex and the response.
NotifyFinish ==
    /\ cmdPc.pc = "check"
    /\ LET threshold == semanticCfg.auto_reindex_threshold
           should_reindex == ShouldReindex(dirtyCount, threshold)
       IN  /\ NotifyFileChanged(cmdPc.file)
           /\ IF should_reindex
              THEN TriggerBackgroundReindex
              ELSE UNCHANGED <<reindexInProgress, reindexPc>>
           /\ resp' = [status |-> "ok", dirty_count |-> dirtyCount,
                       threshold |-> threshold,
                       reindex_triggered |-> should_reindex]
           /\ UNCHANGED <<cache, hits, misses>>
           /\ Log("notify", NoKey, FALSE, {cmdPc.file})
    /\ cmdPc' = Idle
    /\ UNCHANGED <<content, dirtyFiles, dirtyCount, semanticCfg, shutdownRequested,
                   lastQuery, notMemo>>

\* The sequence s without its i-th element.
RemoveAt(s, i) == SubSeq(s, 1, i - 1) \o SubSeq(s, i + 1, Len(s))

\* do_reindex of thread i: the subprocess has ended (exit code zero or not,
\* timeout, or an exception while spawning); finally: _dirty_files.clear()
ReindexClear ==
    \E i \in DOMAIN reindexPc :
        /\ reindexPc[i].pc = "running"
        /\ dirtyFiles' = {}
        /\ reindexPc' = [reindexPc EXCEPT ![i].pc = "cleared"]
        /\ UNCHANGED <<content, fileRev, cache, hits, misses, dirtyCount,
                       reindexInProgress, semanticCfg, resp, lastCmd, prevCmd,
                       sinceCompute, nCmds, cmdPc, shutdownRequested, lastQuery,
                       notMemo>>

\* do_reindex, finally: self._dirty_count = 0
ReindexZero ==
    \E i \in DOMAIN reindexPc :
        /\ reindexPc[i].pc = "cleared"
        /\ dirtyCount' = 0
        /\ reindexPc' = [reindexPc EXCEPT ![i].pc = "zeroed"]
        /\ UNCHANGED <<content, fileRev, cache, hits, misses, dirtyFiles,
                       reindexInProgress, semanticCfg, resp, lastCmd, prevCmd,
                       sinceCompute, nCmds, cmdPc, shutdownRequested, lastQuery,
                       notMemo>>

\* do_reindex, finally: self._reindex_in_progress = False; the thread ends
ReindexDone ==
    \E i \in DOMAIN reindexPc :
        /\ reindexPc[i].pc = "zeroed"
        /\ reindexInProgress' = FALSE
        /\ reindexPc' = RemoveAt(reindexPc, i)
        /\ UNCHANGED <<content, fileRev, cache, hits, misses, dirtyFiles, dirtyCount,
                       semanticCfg, resp, lastCmd, prevCmd, sinceCompute, nCmds,
                       cmdPc, shutdownRequested, lastQuery, notMemo>>

\* An editor rewrites a file of the project on disk.
EditFile(f, w) ==
    /\ nCmds < MaxCmds
    /\ cmdPc = Idle
    /\ content[f] # w
    /\ content' = [content EXCEPT ![f] = w]
    /\ UNCHANGED <<fileRev, cache, hits, misses, dirtyFiles, dirtyCount,
                   reindexInProgress, reindexPc, semanticCfg, resp, lastCmd,
                   prevCmd, sinceCompute, nCmds, cmdPc, shutdownRequested,
                   lastQuery, notMemo>>

NextMemo ==
    \/ \E c \in SearchCommands : HandleSearch(c)
    \/ \E c \in ExtractCommands : HandleExtract(c)
    \/ \E c \in NotifyCommands : NotifyStart(c)
    \/ NotifyLoadCount
    \/ NotifyStoreCount
    \/ NotifyFinish
    \/ HandleStatus
    \/ HandleShutdown
    \/ HandleMalformed
    \/ HandleNonObject
    \/ ReindexClear
    \/ ReindexZero
    \/ ReindexDone
    \/ \E f \in Edited, w \in Words : EditFile(f, w)

\* The extension lists a tree request may carry.
ExtensionLists == { << >>, <<"py">>, <<"js">>, <<"py", "js">>, <<"js", "py">> }

TreeCommands ==
    {[cmd |-> "tree"]}
    \cup {[cmd |-> "tree", extensions |-> e] : e \in ExtensionLists}
    \cup {[cmd |-> "tree", extensions |-> e, exclude_hidden |-> FALSE] :
             e \in ExtensionLists}

\* The extension of a file name (the files of the project are Python files).
ExtensionOf(f) == "py"

\* api.get_file_tree(project, extensions=ext_set, exclude_hidden): the files of
\* the project with one of the extensions (all files if ext_set is None); the
\* project has no hidden files.
ApiGetFileTree(ext_set, exclude_hidden) ==
    { f \in Files : ext_set = {} \/ ExtensionOf(f) \in ext_set }

\* cached_tree(db, project, extensions, exclude_hidden)
CachedTree(project, extensions, exclude_hidden) ==
    LET ext_set == { extensions[i] : i \in DOMAIN extensions }
    IN  [status |-> "ok", result |-> ApiGetFileTree(ext_set, exclude_hidden)]

TreeKey(project, ext_tuple, exclude_hidden) ==
    <<"cached_tree", project, ext_tuple, exclude_hidden>>

\* TLDRDaemon._handle_tree: ext_tuple = tuple(extensions) keeps the order of
\* the list.
HandleTree(command) ==
    /\ CanAccept
    /\ TouchLastQuery
    /\ LET extensions == Get(command, "extensions", << >>)
           ext_tuple == extensions
           exclude_hidden == Get(command, "exclude_hidden", TRUE)
           key == TreeKey(Project, ext_tuple, exclude_hidden)
       IN  /\ SalsaQuery(key, CachedTree(Project, ext_tuple, exclude_hidden))
           /\ Log("tree", key, SalsaHit(key), {})
    /\ UNCHANGED <<content, fileRev, dirtyFiles, dirtyCount, reindexInProgress,
                   reindexPc, semanticCfg, cmdPc, shutdownRequested, notMemo>>

NextTree == \E command \in TreeCommands : HandleTree(command)

(***************************************************************************)
(*                THE RUN LOOP OF ONE DAEMON (daemon.py)                   *)
(*                                                                         *)
(* TLDRDaemon.run of a daemon whose start_daemon holds the PID-file lock:  *)
(* the loop over connections, the idle timeout, the shutdown command and   *)
(* the cleanup in the finally block.  Time is the clock the daemon reads   *)
(* with time.time(); one unit of IdleTimeout stands for IDLE_TIMEOUT.      *)
(***************************************************************************)

\* Bounds of the run-loop model.
MaxClock == 3
MaxRequests == 3

\* IDLE_TIMEOUT = 30 * 60, in units of the model's clock.
IdleTimeout == 1

\* What a client may send on one connection.
RequestKinds == {"ping", "unknown", "malformed", "shutdown"}

\* TLDRDaemon.__init__ in a process that holds the lock: last_query is the time
\* of construction, _status is "initializing", no content-hash index is loaded.
RunInit ==
    /\ clock = 0
    /\ last_query = 0
    /\ shutdown_requested = FALSE
    /\ runPc = "run"
    /\ socketFile = FALSE
    /\ pidFile = FALSE
    /\ lockHeld = TRUE
    /\ runStatus = "initializing"
    /\ dedup_index = FALSE
    /\ persisted = {}
    /\ lastRequest = [kind |-> "none", at |-> 0, parsedAt |-> 0, response |-> "none"]
    /\ nDispatched = 0
    /\ nRequests = 0
    /\ stopCause = "none"
    /\ released = << >>

\* The state of this part while another part of the model runs.
RunIdle ==
    /\ clock = 0
    /\ last_query = 0
    /\ shutdown_requested = FALSE
    /\ runPc = "none"
    /\ socketFile = FALSE
    /\ pidFile = FALSE
    /\ lockHeld = FALSE
    /\ runStatus = "none"
    /\ dedup_index = FALSE
    /\ persisted = {}
    /\ lastRequest = [kind |-> "none", at |-> 0, parsedAt |-> 0, response |-> "none"]
    /\ nDispatched = 0
    /\ nRequests = 0
    /\ stopCause = "none"
    /\ released = << >>

\* time.time() advances while the daemon runs.
ClockTick ==
    /\ runPc \notin {"none", "exited"}
    /\ clock < MaxClock
    /\ clock' = clock + 1
    /\ UNCHANGED <<last_query, shutdown_requested, runPc, socketFile, pidFile,
                   lockHeld, runStatus, dedup_index, persisted, lastRequest,
                   nDispatched, nRequests, stopCause, released, notRun>>

\* run: write_pid_file(); write_status("indexing").
RunWritePid ==
    /\ runPc = "run"
    /\ pidFile' = TRUE
    /\ runStatus' = "indexing"
    /\ runPc' = "create_socket"
    /\ UNCHANGED <<clock, last_query, shutdown_requested, socketFile, lockHeld,
                   dedup_index, persisted, lastRequest, nDispatched, nRequests,
                   stopCause, released, notRun>>

\* run: _create_socket(); write_status("ready").
RunCreateSocket ==
    /\ runPc = "create_socket"
    /\ socketFile' = TRUE
    /\ runStatus' = "ready"
    /\ runPc' = "while"
    /\ UNCHANGED <<clock, last_query, shutdown_requested, pidFile, lockHeld,
                   dedup_index, persisted, lastRequest, nDispatched, nRequests,
                   stopCause, released, notRun>>

\* run: `while not self._shutdown_requested`.
RunWhile ==
    /\ runPc = "while"
    /\ runPc' = IF shutdown_requested THEN "finally" ELSE "accept"
    /\ stopCause' = IF shutdown_requested THEN "shutdown" ELSE stopCause
    /\ UNCHANGED <<clock, last_query, shutdown_requested, socketFile, pidFile,
                   lockHeld, runStatus, dedup_index, persisted, lastRequest,
                   nDispatched, nRequests, released, notRun>>

\* _handle_one_connection: accept() times out after one second; return.
AcceptTimeout ==
    /\ runPc = "accept"
    /\ runPc' = "is_idle"
    /\ UNCHANGED <<clock, last_query, shutdown_requested, socketFile, pidFile,
                   lockHeld, runStatus, dedup_index, persisted, lastRequest,
                   nDispatched, nRequests, stopCause, released, notRun>>

\* _handle_one_connection with a request on the connection: json.loads, then
\* handle_command, which sets last_query and dispatches; malformed JSON is
\* answered by the except clause and never reaches handle_command.
HandleOneConnection(kind) ==
    /\ runPc = "accept"
    /\ nRequests < MaxRequests
    /\ nRequests' = nRequests + 1
    /\ IF kind = "malformed"
       THEN UNCHANGED <<last_query, nDispatched, shutdown_requested>>
       ELSE /\ last_query' = clock
            /\ nDispatched' = nDispatched + 1
            /\ shutdown_requested' = (shutdown_requested \/ kind = "shutdown")
    /\ lastRequest' = [kind |-> kind, at |-> clock,
                       parsedAt |-> IF kind = "malformed"
                                    THEN lastRequest.parsedAt ELSE clock,
                       response |-> CASE kind = "ping" -> "ok"
                                      [] kind = "shutdown" -> "shutting_down"
                                      [] OTHER -> "error"]
    /\ runPc' = "is_idle"
    /\ UNCHANGED <<clock, socketFile, pidFile, lockHeld, runStatus, dedup_index,
                   persisted, stopCause, released, notRun>>

\* A check that stops the daemon as soon as the timeout is reached.
MutIsIdle == (clock - last_query) >= IdleTimeout

\* TLDRDaemon.is_idle
IsIdle == (clock - last_query) > IdleTimeout

\* run: `if self.is_idle(): break`.
RunIdleCheck ==
    /\ runPc = "is_idle"
    /\ runPc' = IF IsIdle THEN "finally" ELSE "while"
    /\ stopCause' = IF IsIdle THEN "idle" ELSE stopCause
    /\ UNCHANGED <<clock, last_query, shutdown_requested, socketFile, pidFile,
                   lockHeld, runStatus, dedup_index, persisted, lastRequest,
                   nDispatched, nRequests, released, notRun>>

\* run, finally: _cleanup_socket().
CleanupSocket ==
    /\ runPc = "finally"
    /\ socketFile' = FALSE
    /\ released' = Append(released, "socket")
    /\ runPc' = "remove_pid_file"
    /\ UNCHANGED <<clock, last_query, shutdown_requested, pidFile, lockHeld,
                   runStatus, dedup_index, persisted, lastRequest, nDispatched,
                   nRequests, stopCause, notRun>>

\* run, finally: remove_pid_file().
RemovePidFile ==
    /\ runPc = "remove_pid_file"
    /\ pidFile' = FALSE
    /\ released' = Append(released, "pid")
    /\ runPc' = "write_status"
    /\ UNCHANGED <<clock, last_query, shutdown_requested, socketFile, lockHeld,
                   runStatus, dedup_index, persisted, lastRequest, nDispatched,
                   nRequests, stopCause, notRun>>

\* A run that closes the locked PID file before it records "stopped".
MutWriteStopped ==
    /\ runPc = "write_status"
    /\ runStatus' = "stopped"
    /\ lockHeld' = FALSE
    /\ released' = released \o <<"lock", "stopped">>
    /\ runPc' = "returned"
    /\ UNCHANGED <<clock, last_query, shutdown_requested, socketFile, pidFile,
                   dedup_index, persisted, lastRequest, nDispatched, nRequests,
                   stopCause, notRun>>

\* run, finally: write_status("stopped"); run returns.
WriteStopped ==
    /\ runPc = "write_status"
    /\ runStatus' = "stopped"
    /\ released' = Append(released, "stopped")
    /\ runPc' = "returned"
    /\ UNCHANGED <<clock, last_query, shutdown_requested, socketFile, pidFile,
                   lockHeld, dedup_index, persisted, lastRequest, nDispatched,
                   nRequests, stopCause, notRun>>

\* start_daemon returns after daemon.run() (sys.exit(0) in the forked child):
\* the process ends and the handle that holds the PID-file lock is closed.
ProcessExit ==
    /\ runPc = "returned"
    /\ lockHeld' = FALSE
    /\ released' = IF lockHeld THEN Append(released, "lock") ELSE released
    /\ runPc' = "exited"
    /\ UNCHANGED <<clock, last_query, shutdown_requested, socketFile, pidFile,
                   runStatus, dedup_index, persisted, lastRequest, nDispatched,
                   nRequests, stopCause, notRun>>

\* The steps the daemon process takes by itself.
DaemonStep ==
    \/ RunWritePid
    \/ RunCreateSocket
    \/ RunWhile
    \/ AcceptTimeout
    \/ RunIdleCheck
    \/ CleanupSocket
    \/ RemovePidFile
    \/ WriteStopped
    \/ ProcessExit

NextRun ==
    \/ ClockTick
    \/ RunWritePid
    \/ RunCreateSocket
    \/ RunWhile
    \/ AcceptTimeout
    \/ \E kind \in RequestKinds : HandleOneConnection(kind)
    \/ RunIdleCheck
    \/ CleanupSocket
    \/ RemovePidFile
    \/ WriteStopped
    \/ ProcessExit

(***************************************************************************)
(*               DURABILITY PARTITIONING (durability.py)                   *)
(*                                                                         *)
(* A path is a sequence of pieces of text ("atoms"): the separators "/"    *)
(* and "\\", and names.  No durable pattern occurs in the text of a path   *)
(* other than as the sequence of atoms that spells it, so Python's         *)
(* substring test and split are a search for a contiguous run of atoms.    *)
(***************************************************************************)

\* Bounds of the durability model.
MaxDepth == 5
MaxDependencyDirs == 1
MaxAdds == 3
MaxDirty == 2

\* The path components the model builds paths from: plain names, a name with a
\* dot, a scoped npm name, and directories of dependencies.
PlainComponents == { <<"a">>, <<"g.c">>, <<"@", "s">> }

DependencyDirs ==
    { <<"vendor">>, <<"node_modules">>, <<"site-packages">>, <<".", "venv">> }

Components == PlainComponents \cup DependencyDirs

\* Number of dependency directories on a path.
NumDependencyDirs(p) ==
    Cardinality({ i \in DOMAIN p : \E d \in DependencyDirs : p[i] = d[Len(d)] })

\* The atoms whose text contains a dot.
DotAtoms == {".", "g.c"}

\* DURABLE_PATTERNS
DURABLE_PATTERNS ==
    << <<"node_modules", "/">>, <<".", "venv", "/">>, <<"venv", "/">>,
       <<"vendor", "/">>, <<"__pycache__", "/">>, <<"site-packages", "/">>,
       <<".", "tox", "/">>, <<"dist-packages", "/">> >>

\* file_path.replace("\\", "/")
Normalize(p) == [i \in DOMAIN p |-> IF p[i] = "\\" THEN "/" ELSE p[i]]

\* The positions of text p at which pattern starts: `pattern in p` is that
\* there is one.
Occurrences(p, pattern) ==
    { i \in 1..(Len(p) - Len(pattern) + 1) :
        SubSeq(p, i, i + Len(pattern) - 1) = pattern }

\* An is_durable that does not normalise the separators.
MutIsDurable(file_path) ==
    \E k \in DOMAIN DURABLE_PATTERNS :
        Occurrences(file_path, DURABLE_PATTERNS[k]) # {}

\* is_durable
IsDurable(file_path) ==
    LET normalized == Normalize(file_path)
    IN  \E k \in DOMAIN DURABLE_PATTERNS :
            Occurrences(normalized, DURABLE_PATTERNS[k]) # {}

\* p.split(pattern)[-1]: what follows the last occurrence of the pattern (the
\* patterns end with the only "/" they contain, so occurrences do not overlap).
AfterLast(p, pattern) ==
    LET occ == Occurrences(p, pattern)
        last == CHOOSE i \in occ : \A j \in occ : j <= i
    IN  IF occ = {} THEN p ELSE SubSeq(p, last + Len(pattern), Len(p))

\* The position of the first "/" of p at or after position i (Len(p) + 1 if
\* there is none).
RECURSIVE NextSlash(_, _)
NextSlash(p, i) ==
    IF i > Len(p) \/ p[i] = "/" THEN i ELSE NextSlash(p, i + 1)

\* p.split("/"), read from position i on.
RECURSIVE SplitFrom(_, _)
SplitFrom(p, i) ==
    LET j == NextSlash(p, i)
    IN  IF j > Len(p) THEN << SubSeq(p, i, Len(p)) >>
        ELSE << SubSeq(p, i, j - 1) >> \o SplitFrom(p, j + 1)

\* p.split("/")
Split(p) == SplitFrom(p, 1)

\* "/".join(parts)
RECURSIVE Join(_)
Join(parts) ==
    IF Len(parts) = 0 THEN << >>
    ELSE IF Len(parts) = 1 THEN parts[1]
    ELSE parts[1] \o <<"/">> \o Join(Tail(parts))

\* part.startswith("@")
StartsWithAt(part) == Len(part) > 0 /\ part[1] = "@"

\* "." in part
HasDot(part) == \E i \in DOMAIN part : part[i] \in DotAtoms

\* PartitionedIndex._extract_package
ExtractPackage(file_path) ==
    LET normalized == Normalize(file_path)
        node == <<"node_modules", "/">>
        site == <<"site-packages", "/">>
        vend == <<"vendor", "/">>
    IN  IF Occurrences(normalized, node) # {}
        THEN LET path_parts == Split(AfterLast(normalized, node))
             IN  IF StartsWithAt(path_parts[1]) /\ Len(path_parts) > 1
                 THEN path_parts[1] \o <<"/">> \o path_parts[2]
                 ELSE path_parts[1]
        ELSE IF Occurrences(normalized, site) # {}
        THEN Split(AfterLast(normalized, site))[1]
        ELSE IF Occurrences(normalized, vend) # {}
        THEN LET path_parts == Split(AfterLast(normalized, vend))
             IN  IF Len(path_parts) >= 3 /\ HasDot(path_parts[1])
                 THEN Join(SubSeq(path_parts, 1, 3))
                 ELSE path_parts[1]
        ELSE Split(normalized)[1]

\* PartitionedIndex.filter_reindexable: [f for f in dirty_files if not
\* is_durable(f)], read from position i on.
RECURSIVE FilterFrom(_, _)
FilterFrom(dirty_files, i) ==
    IF i > Len(dirty_files) THEN << >>
    ELSE IF IsDurable(dirty_files[i]) THEN FilterFrom(dirty_files, i + 1)
    ELSE << dirty_files[i] >> \o FilterFrom(dirty_files, i + 1)

\* PartitionedIndex.filter_reindexable
FilterReindexable(dirty_files) == FilterFrom(dirty_files, 1)

\* ---- PartitionedIndex ----

\* The source files of the edges the model adds: a file of the project, two
\* spellings of a file of an npm package, a vendored Go file and a file of a
\* virtual environment.
SrcFiles ==
    { <<"a", "/", "a">>,
      <<"node_modules", "/", "a", "/", "a">>,
      <<"node_modules", "\\", "a", "\\", "g.c">>,
      <<"vendor", "/", "g.c", "/", "a", "/", "a">>,
      <<".", "venv", "/", "a">> }

\* The files that edges lead to.
DstFiles == { <<"a", "/", "a">>, <<"node_modules", "/", "a", "/", "a">> }

\* The (src_file, src_func, dst_file, dst_func) tuples add_edge is called with.
PartEdges == { <<s, "f", d, "g">> : s \in SrcFiles, d \in DstFiles }

\* The lists of dirty files filter_reindexable is called with.
DirtyLists ==
    UNION { [1..n -> SrcFiles] : n \in 0..MaxDirty }

NoFilter == [called |-> FALSE, dirty_files |-> << >>, out |-> << >>]

\* PartitionedIndex(): no durable partition, an empty volatile partition.
PartInit ==
    /\ durable = [k \in {} |-> {}]
    /\ volatile = {}
    /\ added = {}
    /\ nAdds = 0
    /\ lastFilter = NoFilter

\* A add_edge that routes an edge by the file it leads to.
MutPartitionedAddEdge(edge) ==
    /\ nAdds < MaxAdds
    /\ nAdds' = nAdds + 1
    /\ added' = added \cup {edge}
    /\ IF IsDurable(edge[3])
       THEN LET package_key == ExtractPackage(edge[3])
            IN  /\ durable' = [k \in DOMAIN durable \cup {package_key} |->
                                 IF k = package_key
                                 THEN (IF k \in DOMAIN durable THEN durable[k] ELSE {})
                                      \cup {edge}
                                 ELSE durable[k]]
                /\ UNCHANGED volatile
       ELSE /\ volatile' = volatile \cup {edge}
            /\ UNCHANGED durable
    /\ UNCHANGED <<lastFilter, pathArg, pathRes, notPath>>

\* PartitionedIndex.add_edge(src_file, src_func, dst_file, dst_func): the
\* partitions hold sets of tuples.
PartitionedAddEdge(edge) ==
    /\ nAdds < MaxAdds
    /\ nAdds' = nAdds + 1
    /\ added' = added \cup {edge}
    /\ IF IsDurable(edge[1])
       THEN LET package_key == ExtractPackage(edge[1])
            IN  /\ durable' = [k \in DOMAIN durable \cup {package_key} |->
                                 IF k = package_key
                                 THEN (IF k \in DOMAIN durable THEN durable[k] ELSE {})
                                      \cup {edge}
                                 ELSE durable[k]]
                /\ UNCHANGED volatile
       ELSE /\ volatile' = volatile \cup {edge}
            /\ UNCHANGED durable
    /\ UNCHANGED <<lastFilter, pathArg, pathRes, notPath>>

\* list(s) for a set s: its elements, each once, in some order.
RECURSIVE ListOf(_)
ListOf(s) ==
    IF s = {} THEN << >>
    ELSE LET x == CHOOSE y \in s : TRUE IN <<x>> \o ListOf(s \ {x})

\* all_edges.extend(partition.edges) for each of the given partitions.
RECURSIVE ExtendAll(_, _)
ExtendAll(all_edges, keys) ==
    IF keys = {} THEN all_edges
    ELSE LET k == CHOOSE y \in keys : TRUE
         IN  ExtendAll(all_edges \o ListOf(durable[k]), keys \ {k})

\* PartitionedIndex.get_all_edges
PartitionedGetAllEdges == ExtendAll(ListOf(volatile), DOMAIN durable)

\* A call of filter_reindexable(dirty_files).
FilterCall(dirty_files) ==
    /\ lastFilter' = [called |-> TRUE, dirty_files |-> dirty_files,
                      out |-> FilterReindexable(dirty_files)]
    /\ UNCHANGED <<durable, volatile, added, nAdds, pathArg, pathRes, notPath>>

\* Number of components of a path.
PathDepth(p) == Len(Split(Normalize(p)))

NoPathResult == [op |-> "none"]

\* The state of this part before any path is looked at (and while another
\* part of the model runs).
PathInit ==
    /\ pathArg = << >>
    /\ pathRes = NoPathResult
    /\ PartInit

\* The caller extends the path by one component; a path is written with one
\* kind of separator.
AppendComponent(c, sep) ==
    /\ PathDepth(pathArg) < MaxDepth \/ pathArg = << >>
    /\ c \in DependencyDirs => NumDependencyDirs(pathArg) < MaxDependencyDirs
    /\ \A i \in DOMAIN pathArg : pathArg[i] \in {"/", "\\"} => pathArg[i] = sep
    /\ pathArg' = IF pathArg = << >> THEN c ELSE pathArg \o <<sep>> \o c
    /\ pathRes' = NoPathResult
    /\ UNCHANGED <<durable, volatile, added, nAdds, lastFilter, notPath>>

\* A call of is_durable(pathArg) and of _extract_package(pathArg).
ExtractPackageCall ==
    /\ pathArg # << >>
    /\ pathRes' = [op |-> "extract_package", durable |-> IsDurable(pathArg),
                   key |-> ExtractPackage(pathArg)]
    /\ UNCHANGED <<pathArg, durable, volatile, added, nAdds, lastFilter, notPath>>

NextPath ==
    \/ \E c \in Components, sep \in {"/", "\\"} : AppendComponent(c, sep)
    \/ ExtractPackageCall

NextPart ==
    \/ \E edge \in PartEdges : PartitionedAddEdge(edge)
    \/ \E dirty_files \in DirtyLists : FilterCall(dirty_files)

(***************************************************************************)
(*        CROSS-FILE CALL RESOLUTION (cross_file_calls/builder.py)         *)
(*                                                                         *)
(* A project of three files.  Each file may define the name "h" as a       *)
(* function, a method or a class; the file CallerFile calls h.  The scan   *)
(* adds the files to call_graph.files in the order in which their parsing  *)
(* completes, then _resolve_cross_file_calls resolves the call.            *)
(***************************************************************************)

SourceFiles == {"a.py", "b.py", "c.py"}

CallerFile == "a.py"

\* for def_type in ['function', 'method', 'class']
DefTypes == <<"function", "method", "class">>

\* What a file defines under the name h: nothing, or h with one of the types.
DefChoices == {"none", "function", "method", "class"}

\* The node in function position of the call expression in CallerFile: the
\* plain call h(...) or the method call res.h(...) on a local object res.
FunctionNodes ==
    { [type |-> "identifier", object |-> "", property |-> "h"],
      [type |-> "member_expression", object |-> "res", property |-> "h"] }

\* TypeScriptParser._extract_function_info: an identifier gives the function
\* name; a member expression gives the property as function, the receiver as
\* object and, the receiver being an identifier, as module too.
ExtractFunctionInfo(node) ==
    IF node.type = "identifier"
    THEN [function |-> node.property, module |-> "None", object |-> "None"]
    ELSE [function |-> node.property, module |-> node.object, object |-> node.object]

\* The files of the project have their content; none has been scanned yet.
CallsInit ==
    /\ definitions \in [SourceFiles -> DefChoices]
    /\ call \in { ExtractFunctionInfo(node) : node \in FunctionNodes }
    /\ cgFiles = << >>
    /\ resolved_to = "pending"

\* The state of this part while another part of the model runs.
CallsIdle ==
    /\ definitions = [f \in SourceFiles |-> "none"]
    /\ call = [function |-> "h", module |-> "None", object |-> "None"]
    /\ cgFiles = << >>
    /\ resolved_to = "pending"

\* The files that have been added to call_graph.files.
Scanned == { cgFiles[i] : i \in DOMAIN cgFiles }

\* _process_files_parallel: call_graph.add_file(file_path, file_calls) as the
\* futures complete, in any order.
AddFile(file_path) ==
    /\ resolved_to = "pending"
    /\ file_path \notin Scanned
    /\ cgFiles' = Append(cgFiles, file_path)
    /\ UNCHANGED <<definitions, call, resolved_to, notCalls>>

\* definition_map[(name, type)]: the files that define h with the type, in
\* the order of call_graph.files.
Matches(def_type) ==
    SelectSeq(cgFiles, LAMBDA f : definitions[f] = def_type)

\* The loop over def_type, from position i on: the first type that has a
\* definition decides; a definition in the calling file is preferred among
\* the definitions of that type, else the first one is taken.
RECURSIVE ResolveFrom(_, _)
ResolveFrom(file_path, i) ==
    IF i > Len(DefTypes) THEN "unresolved"
    ELSE LET matches == Matches(DefTypes[i])
             same_file_matches == SelectSeq(matches, LAMBDA f : f = file_path)
         IN  IF Len(matches) = 0 THEN ResolveFrom(file_path, i + 1)
             ELSE IF Len(same_file_matches) > 0 THEN same_file_matches[1]
             ELSE matches[1]

\* _resolve_cross_file_calls, once every file has been scanned: the call in
\* CallerFile gets its resolved_to from call.get('function') alone (every
\* definition of the model has that name); 'object' and 'module' are not read.
ResolveCrossFileCalls ==
    /\ resolved_to = "pending"
    /\ Scanned = SourceFiles
    /\ resolved_to' = IF call.function = "None" THEN "unresolved"
                                                ELSE ResolveFrom(CallerFile, 1)
    /\ UNCHANGED <<definitions, cgFiles, call, notCalls>>

NextCalls ==
    \/ \E file_path \in SourceFiles : AddFile(file_path)
    \/ ResolveCrossFileCalls

(***************************************************************************)
(*          SCANNING THE FILES OF A PROJECT (cross_file_calls/scanner.py)  *)
(*                                                                         *)
(* The same list of files is processed by _process_files_sequential and by *)
(* _process_files_parallel, each into a call graph of its own, so that the *)
(* two results can be compared.                                            *)
(***************************************************************************)

\* files_to_scan
FilesToScan == <<"a.ts", "b.ts", "c.ts">>

ScanFileSet == { FilesToScan[i] : i \in DOMAIN FilesToScan }

\* What processing a file does:
\*   "calls"     extract_calls returns a non-empty list of calls;
\*   "no_calls"  the file is parsed and holds no call: extract_calls returns [];
\*   "failed"    parsing fails inside the parser, which returns [] (an
\*               unreadable file in TypeScriptParser: tree-sitter path and
\*               regex fallback both end in `except Exception: return []`);
\*   "raised"    an exception escapes extract_calls;
\*   "no_parser" get_parser_for_file returns None.
Outcomes == {"calls", "no_calls", "failed", "raised", "no_parser"}

\* parser.extract_calls(file_path) when it returns.
ExtractCalls(file_path) ==
    IF outcome[file_path] = "calls" THEN <<"h">> ELSE << >>

ScanInit ==
    /\ outcome \in [ScanFileSet -> Outcomes]
    /\ seqPos = 0
    /\ seqFiles = {}
    /\ parDone = {}
    /\ parFiles = {}

\* The state of this part while another part of the model runs.
ScanIdle ==
    /\ outcome = [f \in ScanFileSet |-> "calls"]
    /\ seqPos = 0
    /\ seqFiles = {}
    /\ parDone = {}
    /\ parFiles = {}

\* One iteration of the loop of _process_files_sequential: no parser or an
\* exception skip the file; otherwise add_file(file_path, file_calls).
SequentialStep ==
    /\ seqPos < Len(FilesToScan)
    /\ LET file_path == FilesToScan[seqPos + 1]
       IN  seqFiles' =
               IF outcome[file_path] \in {"no_parser", "raised"} THEN seqFiles
               ELSE seqFiles \cup {[file |-> file_path, calls |-> ExtractCalls(file_path)]}
    /\ seqPos' = seqPos + 1
    /\ UNCHANGED <<outcome, parDone, parFiles, notScan>>

\* process_file of _process_files_parallel: (file_path, []) when there is no
\* parser or an exception, else (file_path, file_calls).
ProcessFile(file_path) ==
    IF outcome[file_path] \in {"no_parser", "raised"} THEN << >>
    ELSE ExtractCalls(file_path)

\* One future of _process_files_parallel completes (as_completed: any order):
\* `if file_calls: call_graph.add_file(file_path, file_calls)`.
ParallelComplete(file_path) ==
    /\ file_path \notin parDone
    /\ parDone' = parDone \cup {file_path}
    /\ LET file_calls == ProcessFile(file_path)
       IN  parFiles' = IF file_calls # << >>
                       THEN parFiles \cup {[file |-> file_path, calls |-> file_calls]}
                       ELSE parFiles
    /\ UNCHANGED <<outcome, seqPos, seqFiles, notScan>>

NextScan ==
    \/ SequentialStep
    \/ \E file_path \in ScanFileSet : ParallelComplete(file_path)

(***************************************************************************)
(*                 WORKSPACE SCOPING (src/tldr/workspace.py)               *)
(*                                                                         *)
(* Paths, package prefixes and glob patterns are strings, modelled as the  *)
(* sequences of their characters, so that replace, startswith, rstrip,     *)
(* split, `in` and fnmatch are computed character by character.            *)
(***************************************************************************)

\* The characters a path is spelled with.
PathChars == {"a", "b", "/", "\\", "."}

\* The longest path spelled.
MaxPathLen == 4

\* The values of activePackages: none, "a", "b" and "a/b", "./a/", ".".
ActivePackageLists ==
    { << >>,
      << <<"a">> >>,
      << <<"b">>, <<"a", "/", "b">> >>,
      << <<".", "/", "a", "/">> >>,
      << <<".">> >> }

\* The values of excludePatterns: none, "**/b/**", "a/**/b".
ExcludePatternLists ==
    { << >>,
      << <<"*", "*", "/", "b", "/", "*", "*">> >>,
      << <<"a", "/", "*", "*", "/", "b">> >> }

\* s.startswith(prefix)
StartsWith(s, prefix) ==
    Len(prefix) <= Len(s) /\ SubSeq(s, 1, Len(prefix)) = prefix

\* s.rstrip(ch)
RECURSIVE RStrip(_, _)
RStrip(s, ch) ==
    IF Len(s) > 0 /\ s[Len(s)] = ch THEN RStrip(SubSeq(s, 1, Len(s) - 1), ch)
    ELSE s

\* _normalize_path: backslashes to slashes, one leading "./" removed, the
\* trailing slashes removed.
NormalizePath(path) ==
    LET slashed == Normalize(path)
        rooted == IF StartsWith(slashed, <<".", "/">>)
                  THEN SubSeq(slashed, 3, Len(slashed)) ELSE slashed
    IN  RStrip(rooted, "/")

\* fnmatch.fnmatch(s, pat) on POSIX, from position i of s and j of pat: "*"
\* matches any run of characters ("/" included), "?" any one character, any
\* other character itself; the whole of s must be matched.
RECURSIVE FnmatchFrom(_, _, _, _)
FnmatchFrom(s, i, pat, j) ==
    IF j > Len(pat) THEN i > Len(s)
    ELSE IF pat[j] = "*"
         THEN \/ FnmatchFrom(s, i, pat, j + 1)
              \/ i <= Len(s) /\ FnmatchFrom(s, i + 1, pat, j)
    ELSE /\ i <= Len(s)
         /\ pat[j] = "?" \/ pat[j] = s[i]
         /\ FnmatchFrom(s, i + 1, pat, j + 1)

\* The body of the loop of _matches_any_pattern for one pattern: fnmatch, or,
\* for a pattern that contains "**", one of its literal parts being the start
\* of the path, between two slashes of it, or the whole of it.
MatchesPattern(path, pattern) ==
    \/ FnmatchFrom(path, 1, pattern, 1)
    \/ /\ Occurrences(pattern, <<"*", "*">>) # {}
       /\ LET parts == Split(pattern)
          IN  \E k \in DOMAIN parts :
                 LET part == parts[k]
                     dir_name == RStrip(part, "*")
                 IN  /\ part # << >> /\ part # <<"*", "*">> /\ part # <<"*">>
                     /\ dir_name # << >>
                     /\ \/ StartsWith(path, dir_name \o <<"/">>)
                        \/ Occurrences(path, <<"/">> \o dir_name \o <<"/">>) # {}
                        \/ path = dir_name

\* _matches_any_pattern
MatchesAnyPattern(path, patterns) ==
    \E k \in DOMAIN patterns : MatchesPattern(path, patterns[k])

\* An _is_under_active_package that tests path.startswith(pkg_normalized).
MutIsUnderActivePackage(path, active_packages) ==
    \E k \in DOMAIN active_packages :
        StartsWith(path, NormalizePath(active_packages[k]))

\* _is_under_active_package
IsUnderActivePackage(path, active_packages) ==
    \E k \in DOMAIN active_packages :
        LET pkg_normalized == NormalizePath(active_packages[k])
        IN  path = pkg_normalized \/ StartsWith(path, pkg_normalized \o <<"/">>)

\* should_include_path
ShouldIncludePath(path, config) ==
    LET normalized_path == NormalizePath(path)
    IN  IF /\ Len(config.active_packages) > 0
           /\ ~IsUnderActivePackage(normalized_path, config.active_packages)
        THEN FALSE
        ELSE IF /\ Len(config.exclude_patterns) > 0
                /\ MatchesAnyPattern(normalized_path, config.exclude_patterns)
        THEN FALSE
        ELSE TRUE

\* A workspace configuration is loaded; no path has been spelled yet.
WsInit ==
    /\ wsPath = << >>
    /\ wsConfig \in [active_packages : ActivePackageLists,
                     exclude_patterns : ExcludePatternLists]
    /\ wsCall = "none"
    /\ wsResult = FALSE

\* The state of this part while another part of the model runs.
WsIdle ==
    /\ wsPath = << >>
    /\ wsConfig = [active_packages |-> << >>, exclude_patterns |-> << >>]
    /\ wsCall = "none"
    /\ wsResult = FALSE

\* The caller spells one more character of the path.
SpellChar(c) ==
    /\ wsCall = "none"
    /\ Len(wsPath) < MaxPathLen
    /\ wsPath' = Append(wsPath, c)
    /\ UNCHANGED <<wsConfig, wsCall, wsResult, notWs>>

\* should_include_path(path, config) is called.
ShouldIncludeCall ==
    /\ wsCall = "none"
    /\ wsCall' = "should_include_path"
    /\ wsResult' = ShouldIncludePath(wsPath, wsConfig)
    /\ UNCHANGED <<wsPath, wsConfig, notWs>>

\* _matches_any_pattern(path, patterns) is called on a normalised path with
\* the exclude patterns of the configuration.
MatchesAnyPatternCall ==
    /\ wsCall = "none"
    /\ NormalizePath(wsPath) = wsPath
    /\ wsCall' = "_matches_any_pattern"
    /\ wsResult' = MatchesAnyPattern(wsPath, wsConfig.exclude_patterns)
    /\ UNCHANGED <<wsPath, wsConfig, notWs>>

NextWs ==
    \/ \E c \in PathChars : SpellChar(c)
    \/ ShouldIncludeCall
    \/ MatchesAnyPatternCall

(***************************************************************************)
(*                 CONTROL-FLOW GRAPH OF ONE FUNCTION                      *)
(*                                                                         *)
(* The builder reads the body of a function construct by construct and     *)
(* grows the graph: one entry block, one exit block, a decision edge for   *)
(* each if / elif / while / for / repeat-until, an edge to the exit for a  *)
(* return, to the post-loop block for a break, to the loop header for a    *)
(* continue.                                                               *)
(***************************************************************************)

\* The number of constructs and statements of the longest body read.
MaxSteps == 4

\* The deepest nesting of constructs read.
MaxNesting == 2

EntryBlock == 1

ExitBlock == 2

\* A function whose body has not been read yet: entry and exit block.
CfgInit ==
    /\ cfgBlocks = <<"entry", "exit">>
    /\ cfgEdges = {}
    /\ cfgCur = EntryBlock
    /\ cfgOpen = << >>
    /\ cfgDecisions = 0
    /\ cfgDepth = 0
    /\ cfgSteps = 0
    /\ complexity = 0

\* The state of this part while another part of the model runs.
CfgIdle == CfgInit

\* The id of the i-th block created by a step.
NewBlock(i) == Len(cfgBlocks) + i

CFGEdge(src, dst, kind) == [src |-> src, dst |-> dst, kind |-> kind]

\* The innermost open construct.
Innermost == cfgOpen[Len(cfgOpen)]

\* The innermost open loop (while or for).
InnermostLoop ==
    LET k == CHOOSE i \in DOMAIN cfgOpen :
                 /\ cfgOpen[i].kind = "loop"
                 /\ \A j \in DOMAIN cfgOpen : cfgOpen[j].kind = "loop" => j <= i
    IN  cfgOpen[k]

InLoopBody == \E i \in DOMAIN cfgOpen : cfgOpen[i].kind = "loop"

\* The body is still being read, and another construct may be read.
Reading == complexity = 0

MayRead == Reading /\ cfgSteps < MaxSteps

\* Opening a construct.
Push(construct) ==
    /\ cfgOpen' = Append(cfgOpen, construct)
    /\ cfgDepth' = IF Len(cfgOpen) + 1 > cfgDepth THEN Len(cfgOpen) + 1 ELSE cfgDepth

\* Closing the innermost construct.
Pop ==
    /\ cfgOpen' = SubSeq(cfgOpen, 1, Len(cfgOpen) - 1)
    /\ UNCHANGED cfgDepth

\* `if c then`: the current block holds the condition; a block for the arm and
\* the block after the if are created; the true edge is the decision edge.
OpenIf ==
    /\ MayRead /\ Len(cfgOpen) < MaxNesting
    /\ cfgBlocks' = cfgBlocks \o <<"basic", "basic">>
    /\ cfgEdges' = cfgEdges \cup {CFGEdge(cfgCur, NewBlock(1), "true_branch")}
    /\ Push([kind |-> "if", cond |-> cfgCur, after |-> NewBlock(2), else |-> FALSE])
    /\ cfgCur' = NewBlock(1)
    /\ cfgDecisions' = cfgDecisions + 1
    /\ cfgSteps' = cfgSteps + 1
    /\ UNCHANGED <<complexity, notCfg>>

\* `elseif c then`: the arm falls through to the block after the if; the false
\* edge of the previous condition leads to a new condition block.
Elif ==
    /\ MayRead /\ Len(cfgOpen) > 0
    /\ Innermost.kind = "if" /\ ~Innermost.else
    /\ cfgBlocks' = cfgBlocks \o <<"condition", "basic">>
    /\ cfgEdges' = cfgEdges \cup
           { CFGEdge(cfgCur, Innermost.after, "fall_through"),
             CFGEdge(Innermost.cond, NewBlock(1), "false_branch"),
             CFGEdge(NewBlock(1), NewBlock(2), "true_branch") }
    /\ cfgOpen' = [cfgOpen EXCEPT ![Len(cfgOpen)].cond = NewBlock(1)]
    /\ cfgCur' = NewBlock(2)
    /\ cfgDecisions' = cfgDecisions + 1
    /\ cfgSteps' = cfgSteps + 1
    /\ UNCHANGED <<cfgDepth, complexity, notCfg>>

\* `else`: the arm falls through; the false edge leads to the else arm.
Else ==
    /\ Reading /\ Len(cfgOpen) > 0
    /\ Innermost.kind = "if" /\ ~Innermost.else
    /\ cfgBlocks' = Append(cfgBlocks, "basic")
    /\ cfgEdges' = cfgEdges \cup
           { CFGEdge(cfgCur, Innermost.after, "fall_through"),
             CFGEdge(Innermost.cond, NewBlock(1), "false_branch") }
    /\ cfgOpen' = [cfgOpen EXCEPT ![Len(cfgOpen)].else = TRUE]
    /\ cfgCur' = NewBlock(1)
    /\ UNCHANGED <<cfgDecisions, cfgDepth, cfgSteps, complexity, notCfg>>

\* `end` of an if: the last arm falls through; without an else the false edge
\* leads to the block after the if.
EndIf ==
    /\ Reading /\ Len(cfgOpen) > 0
    /\ Innermost.kind = "if"
    /\ cfgEdges' = cfgEdges \cup
           ( {CFGEdge(cfgCur, Innermost.after, "fall_through")} \cup
             IF Innermost.else THEN {}
             ELSE {CFGEdge(Innermost.cond, Innermost.after, "false_branch")} )
    /\ cfgCur' = Innermost.after
    /\ Pop
    /\ UNCHANGED <<cfgBlocks, cfgDecisions, cfgSteps, complexity, notCfg>>

\* `while c do` or `for ... do`: loop header, body and post-loop block.
OpenLoop ==
    /\ MayRead /\ Len(cfgOpen) < MaxNesting
    /\ cfgBlocks' = cfgBlocks \o <<"loop_header", "basic", "basic">>
    /\ cfgEdges' = cfgEdges \cup
           { CFGEdge(cfgCur, NewBlock(1), "fall_through"),
             CFGEdge(NewBlock(1), NewBlock(2), "true_branch"),
             CFGEdge(NewBlock(1), NewBlock(3), "false_branch") }
    /\ Push([kind |-> "loop", cond |-> NewBlock(1), after |-> NewBlock(3), else |-> FALSE])
    /\ cfgCur' = NewBlock(2)
    /\ cfgDecisions' = cfgDecisions + 1
    /\ cfgSteps' = cfgSteps + 1
    /\ UNCHANGED <<complexity, notCfg>>

\* `end` of a while or for: back edge to the header.
EndLoop ==
    /\ Reading /\ Len(cfgOpen) > 0
    /\ Innermost.kind = "loop"
    /\ cfgEdges' = cfgEdges \cup {CFGEdge(cfgCur, Innermost.cond, "back_edge")}
    /\ cfgCur' = Innermost.after
    /\ Pop
    /\ UNCHANGED <<cfgBlocks, cfgDecisions, cfgSteps, complexity, notCfg>>

\* `repeat`: the body starts a block.
Repeat ==
    /\ MayRead /\ Len(cfgOpen) < MaxNesting
    /\ cfgBlocks' = Append(cfgBlocks, "basic")
    /\ cfgEdges' = cfgEdges \cup {CFGEdge(cfgCur, NewBlock(1), "fall_through")}
    /\ Push([kind |-> "repeat", cond |-> NewBlock(1), after |-> 0, else |-> FALSE])
    /\ cfgCur' = NewBlock(1)
    /\ cfgSteps' = cfgSteps + 1
    /\ UNCHANGED <<cfgDecisions, complexity, notCfg>>

\* `until c`: the condition sends back to the start of the body or on to the
\* post-loop block.
Until ==
    /\ Reading /\ Len(cfgOpen) > 0
    /\ Innermost.kind = "repeat"
    /\ cfgBlocks' = cfgBlocks \o <<"condition", "basic">>
    /\ cfgEdges' = cfgEdges \cup
           { CFGEdge(cfgCur, NewBlock(1), "fall_through"),
             CFGEdge(NewBlock(1), Innermost.cond, "back_edge"),
             CFGEdge(NewBlock(1), NewBlock(2), "true_branch") }
    /\ cfgCur' = NewBlock(2)
    /\ cfgDecisions' = cfgDecisions + 1
    /\ Pop
    /\ UNCHANGED <<cfgSteps, complexity, notCfg>>

\* A statement that leaves the current block for `target`; what follows it in
\* the source goes to a new block that nothing reaches.
Jump(target, kind) ==
    /\ MayRead
    /\ cfgBlocks' = Append(cfgBlocks, "basic")
    /\ cfgEdges' = cfgEdges \cup {CFGEdge(cfgCur, target, kind)}
    /\ cfgCur' = NewBlock(1)
    /\ cfgSteps' = cfgSteps + 1
    /\ UNCHANGED <<cfgOpen, cfgDecisions, cfgDepth, complexity, notCfg>>

\* `return`: an edge to the exit.
Return == Reading /\ Jump(ExitBlock, "fall_through")

\* `break`: an edge to the post-loop block of the nearest loop.
Break == InLoopBody /\ Jump(InnermostLoop.after, "break_edge")

\* `continue`: a back edge to the nearest loop header.
Continue == InLoopBody /\ Jump(InnermostLoop.cond, "continue_edge")

\* A statement without control flow joins the current block.
PlainStatement ==
    /\ MayRead
    /\ cfgSteps' = cfgSteps + 1
    /\ UNCHANGED <<cfgBlocks, cfgEdges, cfgCur, cfgOpen, cfgDecisions, cfgDepth,
                   complexity, notCfg>>

\* A cyclomatic complexity that counts the blocks without the exit.
MutCyclomatic(blocks, edges) == Cardinality(edges) - (Len(blocks) - 1) + 2

\* cyclomatic_complexity = E - N + 2
Cyclomatic(blocks, edges) == Cardinality(edges) - Len(blocks) + 2

\* The `end` of the function: the last block falls through to the exit and the
\* complexity is computed.
FinishFunction ==
    /\ Reading /\ cfgOpen = << >>
    /\ cfgEdges' = cfgEdges \cup {CFGEdge(cfgCur, ExitBlock, "fall_through")}
    /\ complexity' = Cyclomatic(cfgBlocks, cfgEdges')
    /\ UNCHANGED <<cfgBlocks, cfgCur, cfgOpen, cfgDecisions, cfgDepth, cfgSteps,
                   notCfg>>

NextCfg ==
    \/ OpenIf
    \/ Elif
    \/ Else
    \/ EndIf
    \/ OpenLoop
    \/ EndLoop
    \/ Repeat
    \/ Until
    \/ Return
    \/ Break
    \/ Continue
    \/ PlainStatement
    \/ FinishFunction

(***************************************************************************)
(*                 WARM AND IMPACT (src/tldr/daemon.py)                    *)
(*                                                                         *)
(* One project over successive daemon sessions: warm builds the call graph *)
(* and saves it, impact answers from TLDRDaemon.indexes, a restart starts  *)
(* a daemon with empty indexes over the same .tldr directory.              *)
(***************************************************************************)

\* Bound: the number of commands, edits and restarts of a run.
MaxImpOps == 4

\* The call edges the project can hold: (src_file, src_func, dst_file, dst_func).
CallEdges == { <<"a.py", "f", "b.py", "g">>, <<"a.py", "h", "b.py", "g">>,
               <<"b.py", "g", "a.py", "f">> }

\* The func argument of impact ("": the argument is missing).
FuncArgs == {"", "f", "g"}

NoImpCommand == [cmd |-> "none", func |-> "", resp |-> [status |-> "none"]]

ImpInit ==
    /\ projectGraph \in SUBSET CallEdges
    /\ tldrFiles = {}
    /\ indexes = << >>
    /\ warmGraph = [done |-> FALSE, edges |-> {}]
    /\ impLast = NoImpCommand
    /\ nImp = 0

\* The state of this part while another part of the model runs.
ImpIdle ==
    /\ projectGraph = {}
    /\ tldrFiles = {}
    /\ indexes = << >>
    /\ warmGraph = [done |-> FALSE, edges |-> {}]
    /\ impLast = NoImpCommand
    /\ nImp = 0

\* build_project_call_graph(self.project, language=language).edges
ApiBuildProjectCallGraph == projectGraph

\* path.write_text(data): the file is created or replaced.
WriteText(files, path, data) ==
    { f \in files : f.path # path } \cup {[path |-> path, data |-> data]}

\* _handle_warm: the graph is built, written to .tldr/cache/call_graph.json and
\* put into self.indexes["call_graph"].
HandleWarm ==
    /\ nImp < MaxImpOps
    /\ LET graph == ApiBuildProjectCallGraph
           edge_list == ListOf(graph)
           cache_data ==
               [edges |-> [i \in DOMAIN edge_list |->
                              [from_file |-> edge_list[i][1], from_func |-> edge_list[i][2],
                               to_file |-> edge_list[i][3], to_func |-> edge_list[i][4]]],
                languages |-> <<"python">>]
       IN  /\ tldrFiles' = WriteText(tldrFiles, <<"cache", "call_graph.json">>, cache_data)
           /\ indexes' = [k \in {"call_graph"} |-> cache_data]
           /\ warmGraph' = [done |-> TRUE, edges |-> graph]
           /\ impLast' = [cmd |-> "warm", func |-> "",
                          resp |-> [status |-> "ok", edges |-> Cardinality(graph)]]
    /\ nImp' = nImp + 1
    /\ UNCHANGED <<projectGraph, notImp>>

\* _ensure_call_graph_loaded: self.indexes afterwards.
EnsureCallGraphLoaded ==
    IF "call_graph" \in DOMAIN indexes THEN indexes
    ELSE LET call_graph_path == <<"call_graph.json">>
             found == { f \in tldrFiles : f.path = call_graph_path }
         IN  IF found # {}
             THEN [k \in {"call_graph"} |-> (CHOOSE f \in found : TRUE).data]
             ELSE [k \in {"call_graph"} |-> [edges |-> << >>, nodes |-> << >>]]

\* The loop of _handle_impact over the edges from position i on.
RECURSIVE CallersFrom(_, _, _)
CallersFrom(edges, i, func_name) ==
    IF i > Len(edges) THEN << >>
    ELSE ( IF Get(edges[i], "callee", "None") = func_name
           THEN << [caller |-> Get(edges[i], "caller", "None"),
                    file |-> Get(edges[i], "file", "None"),
                    line |-> Get(edges[i], "line", "None")] >>
           ELSE << >> ) \o CallersFrom(edges, i + 1, func_name)

\* _handle_impact
HandleImpact(func_name) ==
    /\ nImp < MaxImpOps
    /\ IF func_name = ""
       THEN /\ impLast' = [cmd |-> "impact", func |-> func_name,
                           resp |-> [status |-> "error",
                                     message |-> "Missing required parameter: func"]]
            /\ UNCHANGED indexes
       ELSE /\ indexes' = EnsureCallGraphLoaded
            /\ LET call_graph == indexes'["call_graph"]
                   edges == Get(call_graph, "edges", << >>)
               IN  impLast' = [cmd |-> "impact", func |-> func_name,
                               resp |-> [status |-> "ok",
                                         callers |-> CallersFrom(edges, 1, func_name)]]
    /\ nImp' = nImp + 1
    /\ UNCHANGED <<projectGraph, tldrFiles, warmGraph, notImp>>

\* The daemon is stopped and a new one is started for the project: a new
\* TLDRDaemon object, the same .tldr directory.
RestartDaemon ==
    /\ nImp < MaxImpOps
    /\ indexes' = << >>
    /\ impLast' = [cmd |-> "restart", func |-> "", resp |-> [status |-> "none"]]
    /\ nImp' = nImp + 1
    /\ UNCHANGED <<projectGraph, tldrFiles, warmGraph, notImp>>

\* The files of the project are edited: its call edges change.
EditProject(graph) ==
    /\ nImp < MaxImpOps
    /\ graph # projectGraph
    /\ projectGraph' = graph
    /\ impLast' = [cmd |-> "edit", func |-> "", resp |-> [status |-> "none"]]
    /\ nImp' = nImp + 1
    /\ UNCHANGED <<tldrFiles, indexes, warmGraph, notImp>>

NextImp ==
    \/ HandleWarm
    \/ \E func_name \in FuncArgs : HandleImpact(func_name)
    \/ RestartDaemon
    \/ \E graph \in SUBSET CallEdges : EditProject(graph)

(***************************************************************************)
(*          SAVING AND LOADING PARTITIONS (src/tldr/durability.py)         *)
(*                                                                         *)
(* One PartitionedIndex gets durable partitions and is saved to an empty   *)
(* directory; a second, empty PartitionedIndex loads the directory.  A     *)
(* package key and a file name are sequences of pieces; "/", "@" and "_"   *)
(* are pieces of their own, so that str.replace is computed on them.       *)
(***************************************************************************)

\* Bound: the number of durable partitions of the index that is saved.
MaxPackages == 3

\* The package keys: the empty key, a plain key, keys with "/", "@", "__" and
\* "_at_", and the key that spells the name of the manifest.
PackageKeys ==
    { << >>, <<"a">>,
      <<"a", "/", "t">>, <<"a", "_", "_", "t">>,
      <<"@", "a">>, <<"_", "a", "t", "_", "a">>,
      <<"manifest">> }

\* The edges of the partitions.
SavedEdges == { <<"x.js", "f", "y.js", "g">>, <<"x.js", "h", "y.js", "g">> }

SaveInit ==
    /\ saved = << >>
    /\ durableDir = {}
    /\ restored = << >>
    /\ savePc = "building"

\* The state of this part while another part of the model runs.
SaveIdle == SaveInit

\* The position of package_key in the dict (0: it is not a key).
KeyIndex(dict, package_key) ==
    IF \E i \in DOMAIN dict : dict[i].package_key = package_key
    THEN CHOOSE i \in DOMAIN dict : dict[i].package_key = package_key
    ELSE 0

\* PartitionedIndex.add_edge for a source file of the package package_key:
\* the partition is created on the first edge, DurablePartition.add_edge adds
\* to its set.
AddDurableEdge(package_key, edge) ==
    /\ savePc = "building"
    /\ LET i == KeyIndex(saved, package_key)
       IN  IF i = 0
           THEN /\ Len(saved) < MaxPackages
                /\ saved' = Append(saved, [package_key |-> package_key,
                                           edges |-> {edge}])
           ELSE /\ edge \notin saved[i].edges
                /\ saved' = [saved EXCEPT ![i].edges = @ \cup {edge}]
    /\ UNCHANGED <<durableDir, restored, savePc, notSave>>

\* str.replace(old, new) with old a single piece.
RECURSIVE Replace(_, _, _)
Replace(str, old, new) ==
    IF str = << >> THEN << >>
    ELSE (IF Head(str) = old THEN new ELSE << Head(str) >>)
         \o Replace(Tail(str), old, new)

\* package_key.replace("/", "__").replace("@", "_at_")
SafeKey(package_key) ==
    Replace(Replace(package_key, "/", <<"_", "_">>), "@", <<"_", "a", "t", "_">>)

\* f"{safe_key}.json"
PkgPath(package_key) == SafeKey(package_key) \o <<".json">>

ManifestPath == <<"manifest", ".json">>

\* DurablePartition.to_dict
ToDict(partition) ==
    [package_key |-> partition.package_key, edges |-> ListOf(partition.edges)]

\* DurablePartition.from_dict
FromDict(data) ==
    [package_key |-> Get(data, "package_key", << >>),
     edges |-> LET edge_list == Get(data, "edges", << >>)
               IN  { edge_list[i] : i \in DOMAIN edge_list }]

\* The loop of save_durable over self.durable.items() from position i on.
RECURSIVE SaveFrom(_, _)
SaveFrom(files, i) ==
    IF i > Len(saved) THEN files
    ELSE SaveFrom(WriteText(files, PkgPath(saved[i].package_key), ToDict(saved[i])),
                  i + 1)

\* PartitionedIndex.save_durable(path): the manifest, then one file for each
\* package.
SaveDurable ==
    /\ savePc = "building"
    /\ LET manifest == [packages |-> [i \in DOMAIN saved |-> saved[i].package_key]]
       IN  durableDir' = SaveFrom(WriteText(durableDir, ManifestPath, manifest), 1)
    /\ savePc' = "saved"
    /\ UNCHANGED <<saved, restored, notSave>>

\* The loop of load_durable over manifest["packages"] from position i on.
RECURSIVE LoadFrom(_, _, _)
LoadFrom(dict, packages, i) ==
    IF i > Len(packages) THEN dict
    ELSE LET package_key == packages[i]
             found == { f \in durableDir : f.path = PkgPath(package_key) }
         IN  IF found = {} THEN LoadFrom(dict, packages, i + 1)
             ELSE LET partition == FromDict((CHOOSE f \in found : TRUE).data)
                  IN  LoadFrom([k \in DOMAIN dict \cup {package_key} |->
                                   IF k = package_key THEN partition ELSE dict[k]],
                               packages, i + 1)

\* PartitionedIndex.load_durable(path) of an empty index.
LoadDurable ==
    /\ savePc = "saved"
    /\ LET found == { f \in durableDir : f.path = ManifestPath }
       IN  IF found = {} THEN restored' = restored
           ELSE LET manifest == (CHOOSE f \in found : TRUE).data
                IN  restored' = LoadFrom(restored, Get(manifest, "packages", << >>), 1)
    /\ savePc' = "loaded"
    /\ UNCHANGED <<saved, durableDir, notSave>>

NextSave ==
    \/ \E package_key \in PackageKeys, edge \in SavedEdges :
           AddDurableEdge(package_key, edge)
    \/ SaveDurable
    \/ LoadDurable

(***************************************************************************)
(*                          SPECIFICATIONS                                 *)
(***************************************************************************)

\* Every part but the one a specification runs is idle.
InitStack ==
    StackInit /\ StartIdle /\ MemoIdle /\ RunIdle /\ PathInit /\ CallsIdle /\ ScanIdle /\ WsIdle
    /\ CfgIdle /\ ImpIdle /\ SaveIdle

InitStart ==
    StackInit /\ StartInit /\ MemoIdle /\ RunIdle /\ PathInit /\ CallsIdle /\ ScanIdle /\ WsIdle
    /\ CfgIdle /\ ImpIdle /\ SaveIdle

InitMemo ==
    StackInit /\ StartIdle /\ MemoInit /\ RunIdle /\ PathInit /\ CallsIdle /\ ScanIdle /\ WsIdle
    /\ CfgIdle /\ ImpIdle /\ SaveIdle

InitRun ==
    StackInit /\ StartIdle /\ MemoIdle /\ RunInit /\ PathInit /\ CallsIdle /\ ScanIdle /\ WsIdle
    /\ CfgIdle /\ ImpIdle /\ SaveIdle

InitPath ==
    StackInit /\ StartIdle /\ MemoIdle /\ RunIdle /\ PathInit /\ CallsIdle /\ ScanIdle /\ WsIdle
    /\ CfgIdle /\ ImpIdle /\ SaveIdle

InitCalls ==
    StackInit /\ StartIdle /\ MemoIdle /\ RunIdle /\ PathInit /\ CallsInit /\ ScanIdle /\ WsIdle
    /\ CfgIdle /\ ImpIdle /\ SaveIdle

InitScan ==
    StackInit /\ StartIdle /\ MemoIdle /\ RunIdle /\ PathInit /\ CallsIdle /\ ScanInit /\ WsIdle
    /\ CfgIdle /\ ImpIdle /\ SaveIdle

InitWs ==
    StackInit /\ StartIdle /\ MemoIdle /\ RunIdle /\ PathInit /\ CallsIdle /\ ScanIdle /\ WsInit
    /\ CfgIdle /\ ImpIdle /\ SaveIdle

InitCfg ==
    StackInit /\ StartIdle /\ MemoIdle /\ RunIdle /\ PathInit /\ CallsIdle /\ ScanIdle /\ WsIdle
    /\ CfgInit /\ ImpIdle /\ SaveIdle

InitImp ==
    StackInit /\ StartIdle /\ MemoIdle /\ RunIdle /\ PathInit /\ CallsIdle /\ ScanIdle /\ WsIdle
    /\ CfgIdle /\ ImpInit /\ SaveIdle

InitSave ==
    StackInit /\ StartIdle /\ MemoIdle /\ RunIdle /\ PathInit /\ CallsIdle /\ ScanIdle /\ WsIdle
    /\ CfgIdle /\ ImpIdle /\ SaveInit

SpecStack == InitStack /\ [][NextStack]_vars

SpecTime == InitStack /\ [][NextTime]_vars

SpecStart == InitStart /\ [][NextStart]_vars

SpecMemo == InitMemo /\ [][NextMemo]_vars

SpecTree == InitMemo /\ [][NextTree]_vars

SpecRun == InitRun /\ [][NextRun]_vars

SpecPath == InitPath /\ [][NextPath]_vars

SpecPart == InitPath /\ [][NextPart]_vars

SpecCalls == InitCalls /\ [][NextCalls]_vars

SpecScan == InitScan /\ [][NextScan]_vars

SpecWs == InitWs /\ [][NextWs]_vars

SpecCfg == InitCfg /\ [][NextCfg]_vars

SpecImp == InitImp /\ [][NextImp]_vars

SpecSave == InitSave /\ [][NextSave]_vars

\* The daemon process keeps running: each of its own steps is taken in the
\* end.  Requests and the passing of time are left to the environment.
SpecRunFair == SpecRun /\ WF_vars(DaemonStep)

(***************************************************************************)
(*                    CLAIMS ON DAEMON STARTUP                             *)
(***************************************************************************)

\* The processes that are inside TLDRDaemon.run and have not stopped.
InRun == { p \in Procs : pc[p] \in {"run_start", "create_socket", "loop"} }

\* The processes that are inside the loop of TLDRDaemon.run.
InLoop == { p \in Procs : pc[p] = "loop" }

\* C1 (as stated): no two daemon processes of the project are inside their run
\* loop at the same time.
C1_AtMostOneDaemonInLoop == Cardinality(InLoop) <= 1

\* C2 (as stated): while a daemon process is inside run(), the lock on the PID
\* file is held through its handle and a non-blocking lock attempt by another
\* process fails.
C2_LockHeldWhileRunning ==
    \A p \in InRun :
        /\ \E l \in locks : l.h = fd[p]
        /\ LockAttemptFails

\* C3: a start_daemon that finds the lock busy prints "Daemon already running"
\* and returns in that same step (it does not wait), having forked or spawned
\* nothing, written no PID, created no .tldrignore and touched no socket; the
\* lock, the PID file, .tldrignore, the socket and the status file are as before,
\* and a start_daemon that has returned does nothing more.
C3_RefusedStartHasNoEffect ==
    [][\A p \in Procs :
        /\ (pc[p] = "acquire" /\ LockAttemptFails /\ pc'[p] # pc[p]) =>
              /\ out'[p] = "Daemon already running"
              /\ pc'[p] = "returned"
              /\ did'[p] = {}
              /\ fd'[p] = 0
              /\ UNCHANGED <<locks, pidContent, tldrignore, sockPath, listening,
                             statusFile>>
              /\ \A q \in Procs \ {p} : pc'[q] = pc[q]
        /\ out[p] = "Daemon already running" =>
              /\ pc'[p] = "returned"
              /\ did'[p] = {}
      ]_vars

\* A start_daemon was refused by the lock of another start_daemon, at a time
\* when .tldrignore did not exist and nothing was written or bound yet.
C3_Witness ==
    \E p \in Procs :
        /\ out[p] = "Daemon already running"
        /\ \E q \in Procs \ {p} : \E l \in locks : l.h = fd[q]
        /\ ~tldrignore
        /\ pidContent \in {0, StalePid}

\* The processes that run start_daemon or the daemon it starts.
Starting ==
    { p \in Procs : pc[p] \notin {"idle", "probe", "probe_locked", "returned", "exited"} }

\* C37: start_daemon reports "Daemon already running" only when a daemon for
\* the project is running or is being started by another start_daemon; a
\* concurrent _is_daemon_alive never causes a start to be refused while no
\* daemon exists.
C37_RefusedOnlyWhenDaemonExists ==
    [][\A p \in Procs :
          out'[p] = "Daemon already running" /\ out[p] # "Daemon already running"
              => Starting \ {p} # {}]_vars

\* C20: the states a daemon process records are a walk of initializing, ready,
\* shutting_down, stopped in that order: ready only after initializing,
\* shutting_down after ready and before stopped, nothing after stopped.
C20_LifecycleIsOrderedWalk ==
    [][\A p \in Procs :
          status'[p] # status[p] =>
              <<status[p], status'[p]>> \in
                  { <<"none", "initializing">>, <<"initializing", "ready">>,
                    <<"ready", "shutting_down">>, <<"shutting_down", "stopped">> }]_vars

\* C21: in every reachable state the content of the status file, when the file
\* exists, is one of initializing, ready, shutting_down, stopped and equals
\* the status that the daemon running on the project holds in memory.
C21_StatusFileMirrorsStatus ==
    statusFile # "none" =>
        /\ statusFile \in {"initializing", "ready", "shutting_down", "stopped"}
        /\ \A p \in InRun : status[p] = statusFile

\* C28: two tree requests whose extensions lists contain the same elements in
\* a different order (and that agree on exclude_hidden) map to the same cache
\* key, so the second request is a cache hit.
C28_ReorderedExtensionsHitCache ==
    (/\ prevCmd.cmd = "tree"
     /\ lastCmd.cmd = "tree"
     /\ { prevCmd.key[3][i] : i \in DOMAIN prevCmd.key[3] }
          = { lastCmd.key[3][i] : i \in DOMAIN lastCmd.key[3] }
     /\ prevCmd.key[4] = lastCmd.key[4])
    => (lastCmd.key = prevCmd.key /\ lastCmd.hit)

(***************************************************************************)
(*               CLAIMS ON CROSS-FILE CALL RESOLUTION                      *)
(***************************************************************************)

\* The files other than the calling file that define h.
OtherDefiners == { f \in SourceFiles \ {CallerFile} : definitions[f] # "none" }

\* C29: when the name of a call is defined both in the calling file and in
\* other files, the call is resolved to the definition in the calling file,
\* whatever the types of the definitions and the order of processing.
C29_SameFileDefinitionWins ==
    (/\ resolved_to # "pending"
     /\ call.object = "None"
     /\ definitions[CallerFile] # "none"
     /\ OtherDefiners # {})
    => resolved_to = CallerFile

\* C30: a call whose name is defined in two or more other files and not in the
\* calling file, or is defined nowhere, is left unresolved.
C30_AmbiguousCallStaysUnresolved ==
    (/\ resolved_to # "pending"
     /\ call.object = "None"
     /\ definitions[CallerFile] = "none"
     /\ Cardinality(OtherDefiners) # 1)
    => resolved_to = "unresolved"

\* C31: a method call on a receiver that is not a known imported module (the
\* calling file imports nothing; the call is res.h(...)) never yields a call
\* edge to a definition of the same name in this or another file.
C31_MethodCallOnObjectNotResolved ==
    (resolved_to # "pending" /\ call.object # "None")
    => resolved_to = "unresolved"

(***************************************************************************)
(*                    CLAIMS ON SCANNING A PROJECT                         *)
(***************************************************************************)

\* Both scans have gone through every file.
ScansDone == seqPos = Len(FilesToScan) /\ parDone = ScanFileSet

\* C32: when parsing one file fails, that file is recorded with empty facts
\* and every other file is still processed; the files recorded and their
\* facts are the same whether the scan runs sequentially or in parallel.
C32_FailedFileRecordedEmptyInBothScans ==
    ScansDone =>
        /\ \A f \in ScanFileSet :
               /\ outcome[f] \in {"failed", "raised"}
                      => [file |-> f, calls |-> << >>] \in seqFiles \cap parFiles
               /\ outcome[f] = "calls"
                      => [file |-> f, calls |-> <<"h">>] \in seqFiles \cap parFiles
        /\ seqFiles = parFiles

(***************************************************************************)
(*                    CLAIMS ON WORKSPACE SCOPING                          *)
(***************************************************************************)

\* The path lies under the package at a path-segment boundary: the segments of
\* the package are the first segments of the path.
RootedUnder(path, pkg) ==
    LET ps == Split(path)
        qs == Split(pkg)
    IN  Len(qs) <= Len(ps) /\ SubSeq(ps, 1, Len(qs)) = qs

\* The rule for including a normalised path.
IncludedByRule(normalized, config) ==
    /\ \/ Len(config.active_packages) = 0
       \/ \E k \in DOMAIN config.active_packages :
             RootedUnder(normalized, NormalizePath(config.active_packages[k]))
    /\ ~MatchesAnyPattern(normalized, config.exclude_patterns)

\* The path written with backslashes for its slashes.
Backslashed(path) == [i \in DOMAIN path |-> IF path[i] = "/" THEN "\\" ELSE path[i]]

\* Other spellings of a path: a leading ./, a trailing /, backslashes.
Spellings(path) ==
    LET slashed == { path, <<".", "/">> \o path, path \o <<"/">>,
                     <<".", "/">> \o path \o <<"/">> }
    IN  slashed \cup { Backslashed(q) : q \in slashed }

\* C33 as stated: should_include_path is true iff the normalised path is under
\* an active package (or there is none) and matches no exclude pattern, and
\* every two spellings of a path that differ only by backslashes, a leading ./
\* or a trailing / get the same answer.
C33_AnySpellingSameAnswer ==
    wsCall = "should_include_path" =>
        /\ wsResult = IncludedByRule(NormalizePath(wsPath), wsConfig)
        /\ \A q \in Spellings(wsPath) : ShouldIncludePath(q, wsConfig) = wsResult

\* C33, amended: the first half as stated; the spellings of a path that is
\* already normalised and is not "." (a leading ./, a trailing /, backslashes
\* for slashes) get the answer of that path.
C33_SpellingsOfNormalisedPathSameAnswer ==
    wsCall = "should_include_path" =>
        /\ wsResult = IncludedByRule(NormalizePath(wsPath), wsConfig)
        /\ (NormalizePath(wsPath) = wsPath /\ wsPath # <<".">>)
              => \A q \in Spellings(wsPath) :
                    ShouldIncludePath(q, wsConfig) = wsResult

\* should_include_path has included the normalised path a/b, under a package
\* and with exclude patterns, and backslashed spellings of it as well.
C33_Witness ==
    /\ wsCall = "should_include_path"
    /\ wsResult
    /\ wsPath = <<"a", "/", "b">>
    /\ Len(wsConfig.active_packages) > 0
    /\ Len(wsConfig.exclude_patterns) > 0

\* The segments of a path.
Segments(path) == LET ps == Split(path) IN { ps[i] : i \in DOMAIN ps }

\* What the glob a/**/b denotes: the paths whose first segment is a and whose
\* last segment is b.
DenotedByPrefixGlob(path) ==
    LET ps == Split(path)
    IN  Len(ps) >= 2 /\ ps[1] = <<"a">> /\ ps[Len(ps)] = <<"b">>

\* C34: the pattern **/b/** matches a path iff b is one of its whole segments
\* (first, middle or last), and the pattern a/**/b matches no path that the
\* glob does not denote.
C34_DoubleStarMatchesWhatGlobDenotes ==
    wsCall = "_matches_any_pattern" =>
        /\ wsConfig.exclude_patterns = << <<"*", "*", "/", "b", "/", "*", "*">> >>
              => (wsResult <=> <<"b">> \in Segments(wsPath))
        /\ wsConfig.exclude_patterns = << <<"a", "/", "*", "*", "/", "b">> >>
              => (wsResult => DenotedByPrefixGlob(wsPath))

(***************************************************************************)
(*                 CLAIMS ON THE CONTROL-FLOW GRAPH                        *)
(***************************************************************************)

C39_ImpactAnswersFromWarmedGraph ==
    (impLast.cmd = "impact" /\ impLast.func # "" /\ warmGraph.done) =>
        /\ impLast.resp.status = "ok"
        /\ Len(impLast.resp.callers)
              = Cardinality({ e \in warmGraph.edges : e[4] = impLast.func })
        /\ { impLast.resp.callers[i].caller : i \in DOMAIN impLast.resp.callers }
              = { e[2] : e \in { d \in warmGraph.edges : d[4] = impLast.func } }

(***************************************************************************)
(*              CLAIMS ON SAVING AND LOADING PARTITIONS                    *)
(***************************************************************************)

\* C40: save_durable followed by load_durable into an empty PartitionedIndex
\* restores, for every package key, exactly the edge set that was saved under
\* that key, whatever the keys are.
C40_LoadRestoresWhatWasSaved ==
    savePc = "loaded" =>
        /\ DOMAIN restored = { saved[i].package_key : i \in DOMAIN saved }
        /\ \A i \in DOMAIN saved :
               /\ saved[i].package_key \in DOMAIN restored
               /\ restored[saved[i].package_key].edges = saved[i].edges

(***************************************************************************)
(*                 CLAIMS ON DURABILITY PARTITIONING                       *)
(***************************************************************************)

\* The durable partitions that hold an edge.
PartitionsOf(edge) == { k \in DOMAIN durable : edge \in durable[k] }

\* How often get_all_edges returns an edge.
TimesReturned(edge) ==
    Cardinality({ i \in DOMAIN PartitionedGetAllEdges :
                    PartitionedGetAllEdges[i] = edge })

\* C25: after any sequence of add_edge calls every edge is stored in exactly
\* one partition: in the durable partition keyed by the package of its
\* src_file iff is_durable(src_file), otherwise in the volatile partition; no
\* edge is in two durable partitions, and get_all_edges returns each distinct
\* edge exactly once (and nothing else).
C25_EdgeInExactlyOnePartition ==
    /\ volatile \cup UNION { durable[k] : k \in DOMAIN durable } = added
    /\ Len(PartitionedGetAllEdges) = Cardinality(added)
    /\ \A edge \in added :
          /\ Cardinality(PartitionsOf(edge)) <= 1
          /\ IF IsDurable(edge[1])
             THEN PartitionsOf(edge) = {ExtractPackage(edge[1])} /\ edge \notin volatile
             ELSE PartitionsOf(edge) = {} /\ edge \in volatile
          /\ TimesReturned(edge) = 1

\* Edges have been added to two durable partitions and to the volatile one.
C25_Witness ==
    /\ Cardinality(DOMAIN durable) = 2
    /\ volatile # {}
    /\ nAdds = 3

\* The eight fixed substrings, as the claim lists them.
EightSubstrings ==
    { <<"node_modules", "/">>, <<".", "venv", "/">>, <<"venv", "/">>,
      <<"vendor", "/">>, <<"__pycache__", "/">>, <<"site-packages", "/">>,
      <<".", "tox", "/">>, <<"dist-packages", "/">> }

\* A path is durable: after replacing backslashes by "/", one of the eight
\* substrings occurs in it.
DurablePath(p) ==
    \E pattern \in EightSubstrings : Occurrences(Normalize(p), pattern) # {}

\* The positions of the paths of L that are not durable, in increasing order,
\* and the paths at these positions.
RECURSIVE KeptFrom(_, _)
KeptFrom(L, i) ==
    IF i = 0 THEN << >>
    ELSE IF DurablePath(L[i]) THEN KeptFrom(L, i - 1)
    ELSE Append(KeptFrom(L, i - 1), L[i])

\* C26: filter_reindexable(L) returns exactly the paths of L that are not
\* durable, in their input order; in particular it returns [] for a list that
\* consists of one durable path.
C26_FilterKeepsVolatileInOrder ==
    lastFilter.called =>
        /\ lastFilter.out = KeptFrom(lastFilter.dirty_files, Len(lastFilter.dirty_files))
        /\ \A i \in DOMAIN lastFilter.out : ~DurablePath(lastFilter.out[i])
        /\ (Len(lastFilter.dirty_files) = 1 /\ DurablePath(lastFilter.dirty_files[1])) =>
              lastFilter.out = << >>

\* A list of a durable path written with backslashes and a volatile path was
\* filtered down to the volatile one.
C26_Witness ==
    /\ lastFilter.called
    /\ Len(lastFilter.dirty_files) = 2
    /\ "\\" \in { lastFilter.dirty_files[1][i] : i \in DOMAIN lastFilter.dirty_files[1] }
    /\ DurablePath(lastFilter.dirty_files[1])
    /\ lastFilter.out = << lastFilter.dirty_files[2] >>

\* The package key the rules give: after node_modules/ the package, with its
\* scope when it starts with "@"; after site-packages/ the package; after
\* vendor/ the components <a>/<b>/<c> when <a> contains a dot and a fourth
\* component follows, else <a>; otherwise the leading component.
PackageByRule(p) ==
    LET normalized == Normalize(p)
        node == <<"node_modules", "/">>
        site == <<"site-packages", "/">>
        vend == <<"vendor", "/">>
    IN  IF Occurrences(normalized, node) # {}
        THEN LET parts == Split(AfterLast(normalized, node))
             IN  IF StartsWithAt(parts[1]) /\ Len(parts) > 1
                 THEN Join(SubSeq(parts, 1, 2))
                 ELSE parts[1]
        ELSE IF Occurrences(normalized, site) # {}
        THEN Split(AfterLast(normalized, site))[1]
        ELSE IF Occurrences(normalized, vend) # {}
        THEN LET parts == Split(AfterLast(normalized, vend))
             IN  IF Len(parts) >= 4 /\ HasDot(parts[1])
                 THEN Join(SubSeq(parts, 1, 3))
                 ELSE parts[1]
        ELSE Split(normalized)[1]

\* C27: for a durable path with vendor/<a>/<b>/<c>/<rest> where <a> contains a
\* dot the package key is <a>/<b>/<c>, for every other path under vendor/ it
\* is <a>; for node_modules it is <pkg>, or @scope/name; for site-packages it
\* is <pkg>; for any other durable path it is the leading path component.
C27_PackageKeyFollowsRules ==
    (pathRes.op = "extract_package" /\ pathRes.durable) =>
        pathRes.key = PackageByRule(pathArg)

(***************************************************************************)
(*                     CLAIMS ON THE RUN LOOP                              *)
(***************************************************************************)

\* The daemon is in the loop of run.
InRunLoop == runPc \in {"while", "accept", "is_idle"}

\* run leaves the loop because is_idle() returned True.
StopsForIdleness == runPc = "is_idle" /\ runPc' = "finally"

\* C22 as stated: the daemon never stops for idleness while the most recent
\* request it received, malformed ones included, is less than the idle
\* timeout old.
C22_EveryRequestPostponesIdleStop ==
    [][(StopsForIdleness /\ lastRequest.kind # "none") =>
          clock - lastRequest.at >= IdleTimeout]_vars

\* C22 as amended: the daemon stops for idleness exactly when is_idle finds
\* the most recent request that parsed as JSON (or the construction of the
\* daemon, if there was none) more than the idle timeout old; malformed
\* requests do not count.  Once that is so and no further request arrives, the
\* daemon leaves its loop and reaches the stopped state.
C22_ParsedRequestPostponesIdleStop ==
    /\ [][runPc = "is_idle" /\ runPc' # runPc =>
             (runPc' = "finally" <=> clock - lastRequest.parsedAt > IdleTimeout)]_vars
    /\ (InRunLoop /\ nRequests = MaxRequests
          /\ clock - lastRequest.parsedAt > IdleTimeout) ~> (runStatus = "stopped")

\* The daemon stopped for idleness although a malformed request had just
\* arrived.
C22_Witness ==
    /\ stopCause = "idle"
    /\ runStatus = "stopped"
    /\ lastRequest.kind = "malformed"
    /\ lastRequest.at > lastRequest.parsedAt

C24_StoppedMeansPersisted ==
    (runStatus = "stopped" /\ stopCause \in {"idle", "shutdown"}) =>
        {"dedup", "cache"} \subseteq persisted

(***************************************************************************)
(*           CLAIMS ON MEMOIZED COMMANDS AND NOTIFICATION                  *)
(***************************************************************************)

IsQuery(c) == c.cmd \in {"search", "extract"} /\ c.key # NoKey

\* C4: after a notification of file p, a memoized query whose result depended
\* on p (the query function read p to compute it) is recomputed on its next
\* call, never served from the cache; for every notification of p, the second
\* and later ones included.
C4_NotifiedQueryIsRecomputed ==
    (IsQuery(lastCmd) /\ lastCmd.notifiedDep) => ~lastCmd.hit

\* C5: two successive search commands with the same pattern and max_results
\* (a pattern the handler accepts) get identical responses, and the second is
\* served from the memo cache: the hit counter that status reports is one
\* higher, the miss counter (runs of the underlying search) is unchanged.
C5_RepeatedSearchIsCacheHit ==
    (/\ IsQuery(prevCmd) /\ prevCmd.cmd = "search"
     /\ IsQuery(lastCmd) /\ lastCmd.cmd = "search"
     /\ lastCmd.key = prevCmd.key)
    => /\ lastCmd.resp = prevCmd.resp
       /\ lastCmd.hit
       /\ lastCmd.stats.hits = prevCmd.stats.hits + 1
       /\ lastCmd.stats.misses = prevCmd.stats.misses

\* Two successive searches for "foo" with results, the file contents having
\* changed on disk in between.
C5_Witness ==
    /\ prevCmd.cmd = "search" /\ lastCmd.cmd = "search"
    /\ lastCmd.key = prevCmd.key
    /\ lastCmd.key[3] = "foo"
    /\ lastCmd.hit
    /\ lastCmd.resp.status = "ok"
    /\ lastCmd.resp.results # << >>
    /\ lastCmd.resp # CachedSearch(Project, lastCmd.key[3], lastCmd.key[4])

\* A notify command with semantic search enabled returns (its last step).
NotifyReturns == cmdPc.pc = "check" /\ cmdPc' = Idle

\* C12: with semantic indexing enabled a notify command starts a background
\* reindex if and only if, after the path has been recorded, the dirty count
\* is at least the threshold and no reindex is in flight; reindex_triggered in
\* the response is true exactly then; nothing else starts a reindex and at
\* most one is in flight at any time.
C12_ReindexStartsIffThresholdAndIdle ==
    [][/\ Len(reindexPc') <= 1
       /\ Len(reindexPc') > Len(reindexPc) => NotifyReturns
       /\ NotifyReturns =>
            LET should == /\ dirtyCount >= semanticCfg.auto_reindex_threshold
                          /\ ~reindexInProgress
                started == /\ reindexPc' = Append(reindexPc, [pc |-> "running",
                                                             dirty_files |-> dirtyFiles])
                           /\ reindexInProgress'
            IN  /\ started <=> should
                /\ resp'.reindex_triggered <=> should]_vars

\* A notify that found the count at or over the threshold while a reindex was
\* in flight, and did not start another.
C12_Witness ==
    /\ lastCmd.cmd = "notify"
    /\ resp = lastCmd.resp
    /\ resp.status = "ok"
    /\ semanticCfg.enabled
    /\ ~resp.reindex_triggered
    /\ resp.dirty_count >= resp.threshold
    /\ Len(reindexPc) = 1

\* C13: the dirty count equals the number of distinct paths in the dirty set
\* in every reachable state; in particular in the states where no notify
\* command and no reset of a reindex thread is under way.
C13_DirtyCountMatchesSet ==
    (cmdPc = Idle /\ reindexPc = << >>) => dirtyCount = Cardinality(dirtyFiles)

\* C14: when a background reindex ends, the in-flight flag is false, the dirty
\* set is empty and the dirty count is 0.
C14_ReindexEndLeavesNothingDirty ==
    [][Len(reindexPc') < Len(reindexPc) =>
          /\ ~reindexInProgress'
          /\ dirtyFiles' = {}
          /\ dirtyCount' = 0]_vars

\* C36: a path notified while a background reindex is in flight is not lost:
\* when the reindex thread resets the dirty tracking, the paths that joined
\* the dirty set after the reindex was triggered stay in the set, and they
\* stay counted.
C36_PathNotifiedInFlightIsKept ==
    [][\A i \in DOMAIN reindexPc :
          LET notifiedInFlight == dirtyFiles \ reindexPc[i].dirty_files
          IN  /\ reindexPc' = [reindexPc EXCEPT ![i].pc = "cleared"]
                    => notifiedInFlight \subseteq dirtyFiles'
              /\ reindexPc' = [reindexPc EXCEPT ![i].pc = "zeroed"]
                    => dirtyCount' >= Cardinality(notifiedInFlight)]_vars

\* C15: with semantic indexing disabled a notify command leaves the dirty set,
\* the dirty count and the in-flight flag unchanged and starts no reindex, and
\* a memoized query that depends on the notified file is recomputed afterwards.
C15_DisabledNotifyOnlyInvalidates ==
    [][~semanticCfg.enabled =>
          /\ (\E c \in NotifyCommands : NotifyStart(c)) =>
                UNCHANGED <<dirtyFiles, dirtyCount, reindexInProgress, reindexPc>>
          /\ (nCmds' = nCmds + 1 /\ IsQuery(lastCmd') /\ lastCmd'.notifiedDep) =>
                ~lastCmd'.hit]_vars

\* C16: while a command is being executed, no other thread writes the state
\* the command uses: the dirty set, the dirty count and the in-flight flag
\* change only by the steps of the command itself.
C16_NoThreadWritesDuringCommand ==
    [][(cmdPc # Idle /\ cmdPc' = cmdPc) =>
          UNCHANGED <<dirtyFiles, dirtyCount, reindexInProgress>>]_vars

\* C17: a request that parses as JSON and raises an exception while it is
\* dispatched or executed (here: a JSON value that is not an object) is
\* answered with one response of status "error" that carries a message.
C17_ExceptionBecomesErrorResponse ==
    lastCmd.cmd = "non_object" =>
        (lastCmd.resp.status = "error" /\ "message" \in DOMAIN lastCmd.resp)

\* The fields of the daemon's state that commands work on.
DaemonState ==
    <<dirtyFiles, dirtyCount, reindexInProgress, reindexPc, cache, fileRev,
      hits, misses, shutdownRequested>>

MissingArgument ==
    \/ \E c \in SearchCommands : Get(c, "pattern", "") = "" /\ HandleSearch(c)
    \/ \E c \in ExtractCommands : Get(c, "file", "") = "" /\ HandleExtract(c)
    \/ \E c \in NotifyCommands : Get(c, "file", "") = "" /\ NotifyStart(c)

RECURSIVE VisibleFold(_, _)
VisibleFold(st, s) ==
    LET below == IF st[s].parent = 0 THEN {} ELSE VisibleFold(st, st[s].parent)
    IN  { e \in below : e.id \notin st[s].deletions } \cup Range(st[s].edges)

\* The fold with a stack's deletions applied to its own edges as well:
\* visible(s) = (visible(parent) \cup s.edges) \ s.deletions.
RECURSIVE VisibleFoldOwn(_, _)
VisibleFoldOwn(st, s) ==
    LET below == IF st[s].parent = 0 THEN {} ELSE VisibleFoldOwn(st, st[s].parent)
    IN  { e \in below \cup Range(st[s].edges) : e.id \notin st[s].deletions }

\* C6 (as stated): for every DB, get_all_edges on the top stack returns exactly
\* the edges of the fold visible(s) = (visible(parent) \ s.deletions) \cup s.edges.
C6_GetAllEdgesIsSpecFold ==
    \A db \in DBIds :
        Range(StackGetAllEdges(stacks, dbs[db], {})) = VisibleFold(stacks, dbs[db])

\* C6 (amended): for every DB, get_all_edges on the top stack returns, each once,
\* exactly the edges of the fold visible(s) = (visible(parent) \cup s.edges) \ s.deletions,
\* and StackedDB.get_all_edges is that list with every edge turned into its tuple.
C6_GetAllEdgesIsFoldOwn ==
    \A db \in DBIds :
        LET got == StackGetAllEdges(stacks, dbs[db], {}) IN
        /\ Range(got) = VisibleFoldOwn(stacks, dbs[db])
        /\ Len(got) = Cardinality(Range(got))
        /\ GetAllEdges(stacks, dbs, db) = [i \in 1..Len(got) |-> got[i].tup]

\* A chain of three stacks whose top deletes an edge held by the root.
C6_Witness ==
    \E db \in DBIds :
        /\ StackDepth(stacks, dbs[db]) = 3
        /\ \E a \in Ancestors(stacks, dbs[db]) :
              /\ stacks[a].parent = 0
              /\ \E i \in DOMAIN stacks[a].edges :
                    stacks[a].edges[i].id \in stacks[dbs[db]].deletions

\* C7 (as stated): a stack that is the parent of another stack is never modified.
C7_ParentStacksNeverChange ==
    [][\A s \in HasChild(stacks) : stacks'[s] = stacks[s]]_vars

\* C8: add_edge and remove_edge on a DB leave every ancestor of its top stack
\* unchanged, and query_at_stack(ancestor) returns the same before and after; they
\* change the top stack's edges (add_edge) or deletions (remove_edge) only.
C8_WritesTouchOnlyTop ==
    [][lastOp'.op \in {"add_edge", "remove_edge"} =>
        LET db == lastOp'.db IN
        /\ \A a \in Ancestors(stacks, dbs[db]) :
              /\ stacks'[a] = stacks[a]
              /\ QueryAtStack(stacks', dbs', db, a) = QueryAtStack(stacks, dbs, db, a)
        /\ dbs' = dbs
        /\ stacks'[dbs[db]].parent = stacks[dbs[db]].parent
        /\ lastOp'.op = "add_edge" => stacks'[dbs[db]].deletions = stacks[dbs[db]].deletions
        /\ lastOp'.op = "remove_edge" => stacks'[dbs[db]].edges = stacks[dbs[db]].edges
      ]_vars

\* remove_edge on a forked DB has named an edge that an ancestor stack holds.
C8_Witness ==
    /\ lastOp.op = "remove_edge"
    /\ \E a \in Ancestors(stacks, dbs[lastOp.db]) :
          \E i \in DOMAIN stacks[a].edges : stacks[a].edges[i].id = lastOp.arg

\* C9: rollback leaves the receiver and every stack as they were and returns a DB
\* whose top is the parent of the receiver's top, or a DB with no edges when the
\* receiver's top is the root; for f = d.fork(), after any writes,
\* f.rollback().get_all_edges() equals d.get_all_edges().
C9_RollbackReturnsParent ==
    [][lastOp'.op = "rollback" =>
        LET f == lastOp'.db
            r == lastOp'.res
        IN
        /\ \A h \in DBIds : dbs'[h] = dbs[h]
        /\ \A s \in StackIds : stacks'[s] = stacks[s]
        /\ IF stacks[dbs[f]].parent # 0
           THEN dbs'[r] = stacks[dbs[f]].parent
           ELSE /\ GetAllEdges(stacks', dbs', r) = << >>
                /\ Depth(stacks', dbs', r) = 1
        /\ origin[f].kind = "fork" =>
              GetAllEdges(stacks', dbs', r) = GetAllEdges(stacks', dbs', origin[f].from)
      ]_vars

\* A fork that received an edge has been rolled back, and its origin holds an edge.
C9_Witness ==
    /\ lastOp.op = "rollback"
    /\ origin[lastOp.db].kind = "fork"
    /\ stacks[dbs[lastOp.db]].edges # << >>
    /\ GetAllEdges(stacks, dbs, lastOp.res) # << >>

\* C10: compact returns a DB of depth 1 whose root stack has no deletions and the
\* same get_all_edges as the receiver, and leaves the receiver and every stack as
\* they were.
C10_CompactPreservesEdges ==
    [][lastOp'.op = "compact" =>
        LET d == lastOp'.db
            c == lastOp'.res
        IN
        /\ Depth(stacks', dbs', c) = 1
        /\ stacks'[dbs'[c]].deletions = {}
        /\ GetAllEdges(stacks', dbs', c) = GetAllEdges(stacks, dbs, d)
        /\ \A h \in DBIds : dbs'[h] = dbs[h]
        /\ \A s \in StackIds : stacks'[s] = stacks[s]
      ]_vars

\* A DB of depth 2 or more, with a deletion that hides an edge of an ancestor,
\* has been compacted.
C10_Witness ==
    /\ lastOp.op = "compact"
    /\ Depth(stacks, dbs, lastOp.db) >= 2
    /\ \E s \in Ancestors(stacks, dbs[lastOp.db]) \cup {dbs[lastOp.db]} :
          stacks[s].deletions # {}
    /\ \E s \in Ancestors(stacks, dbs[lastOp.db]) :
          Len(stacks[s].edges) > Len(GetAllEdges(stacks, dbs, lastOp.res))

\* The current stack of db and its ancestors.
Chain(st, d, db) == {d[db]} \cup Ancestors(st, d[db])

\* C11: query_at_time(t) returns the visible edges of the stack with the
\* greatest created_at not later than t among the current top and its
\* ancestors (the one nearest the top when several share that time), and the
\* empty list when every stack of the chain was created after t.
C11_QueryAtTimePicksLatestNotAfter ==
    lastOp.op = "query_at_time" =>
        LET chain == Chain(stacks, dbs, lastOp.db)
            cands == { s \in chain : stacks[s].created_at <= lastOp.arg }
            best == { s \in cands :
                        /\ \A q \in cands : stacks[q].created_at <= stacks[s].created_at
                        /\ \A q \in cands : (stacks[q].created_at = stacks[s].created_at
                                                /\ q # s) => s \notin Ancestors(stacks, q) }
        IN  IF cands = {} THEN lastOp.edges = << >>
            ELSE \E s \in best : lastOp.edges = ToTuples(StackGetAllEdges(stacks, s, {}))

\* A query at a time between the creation of an ancestor and of the top: the
\* result is the ancestor's edges, not those of the top.
C11_Witness ==
    /\ lastOp.op = "query_at_time"
    /\ stacks[dbs[lastOp.db]].created_at > lastOp.arg
    /\ lastOp.edges # << >>
    /\ lastOp.edges # GetAllEdges(stacks, dbs, lastOp.db)

\* C38: query_at_time(t) returns the edges that were visible at time t: an
\* edge added after t is never in it, and an edge visible at t and removed only
\* after t is never missing from it.  So an add_edge or a remove_edge made when
\* the clock is past t leaves the answer for t as it was.
C38_QueryAtTimeIgnoresLaterChanges ==
    [][(nOps' = nOps + 1 /\ lastOp'.op \in {"add_edge", "remove_edge"}) =>
          \A t \in Times :
              t < now => QueryAtTime(stacks', dbs', lastOp'.db, t)
                            = QueryAtTime(stacks, dbs, lastOp'.db, t)]_vars


====
